---- MODULE Spec2Model ----
(***************************************************************************)
(* Checkpoint write / fault / verify engine of ckpt-integrity.             *)
(*                                                                         *)
(* Files are byte strings: a file's content is a sequence of integers.     *)
(* A data byte is a value of Byte; the structural characters of a JSON     *)
(* text are the negative values of T, so that a proper prefix of a         *)
(* serialized object never parses.  A path that holds no file maps to      *)
(* NoFile.                                                                 *)
(***************************************************************************)
EXTENDS Integers, Sequences, FiniteSets, TLC

VARIABLES
    fs,     \* the file system: path -> content, or NoFile
    cfg,    \* command line of the running writer
    w,      \* the writer: program counter and locals
    io,     \* the write helper in progress (atomic_write_bytes / unsafe_write_bytes)
    row     \* last row produced by a scanner, or last read of a reader

vars == <<fs, cfg, w, io, row>>

----------------------------------------------------------------------------
(* Bounds of the model *)

\* bits of a byte (8 in the program): bytes are 0 .. 2^BitsPerByte - 1
BitsPerByte == 2
\* largest --kb-model / --kb-optim; one unit of payload is one byte here
MaxKb == 2
\* largest checkpoint epoch of a scan report
MaxEpoch == 3

Byte == 0 .. (2 ^ BitsPerByte - 1)
Bits == 0 .. (BitsPerByte - 1)

----------------------------------------------------------------------------
(* Bytes, hashes, JSON texts *)

NoFile == << -1 >>

\* structural characters of the serialized texts
T == [lbrace |-> -2, rbrace |-> -3, lbracket |-> -4, rbracket |-> -5,
      null |-> -6, sha |-> -7, dtype_str |-> -8, dtype_name |-> -9,
      KeyError |-> -10, symlink |-> -11]

Min(a, b) == IF a < b THEN a ELSE b
Max(a, b) == IF a > b THEN a ELSE b

\* b[:k]
Prefix(b, k) == SubSeq(b, 1, Min(k, Len(b)))

\* hashlib.sha256(b).hexdigest(), taken as collision-free: the digest
\* determines the bytes.  A digest is never the empty string.
sha256_bytes(b) == << T.sha >> \o b

PartNames == << "model.bin", "optim.bin", "rng.json" >>
ManPath == "MANIFEST.json"
ComPath == "COMMIT.json"
TmpPath == ".tmp_gc_"

\* the checkpoint file of a single-checkpoint writer and its sidecar
CkptPath(prog) == IF prog = "npz" THEN "ckpt_epoch_0003.npz" ELSE "ckpt_epoch_0003.pt"
MetaPath(prog) == IF prog = "npz" THEN "ckpt_epoch_0003.npz.json"
                  ELSE "ckpt_epoch_0003.pt.json"

Paths ==
    {PartNames[i] : i \in 1..Len(PartNames)} \cup {ManPath, ComPath, TmpPath}
        \cup {CkptPath(g) : g \in {"npz", "torch"}} \cup {MetaPath(g) : g \in {"npz", "torch"}}

PartId(name) == CHOOSE i \in 1..Len(PartNames) : PartNames[i] = name

\* one manifest entry {"path":..,"bytes":..,"sha256":..} as text
EntryText(e) == << PartId(e.path), e.bytes, Len(e.sha256) >> \o e.sha256

RECURSIVE EntriesText(_)
EntriesText(es) ==
    IF es = << >> THEN << >> ELSE EntryText(Head(es)) \o EntriesText(Tail(es))

\* json.dumps({"epoch":..,"seed":..,"parts":[..]}, sort_keys=True).encode()
ManifestText(epoch, seed, parts) ==
    << T.lbrace, epoch, seed >> \o EntriesText(parts) \o << T.rbrace >>

\* json.dumps({"epoch":..,"seed":..,"manifest_sha256":..,"ts":..}, sort_keys=True).encode()
CommitText(epoch, seed, msha, ts) ==
    << T.lbrace, epoch, seed, ts, Len(msha) >> \o msha \o << T.rbrace >>

\* the entries of s[i..]; ok is FALSE when they do not parse
RECURSIVE ParseEntries(_, _)
ParseEntries(s, i) ==
    IF i > Len(s) THEN [ok |-> TRUE, es |-> << >>]
    ELSE IF i + 2 > Len(s) \/ s[i] \notin 1..Len(PartNames) \/ s[i+1] < 0
            \/ s[i+2] < 0 \/ i + 2 + s[i+2] > Len(s)
         THEN [ok |-> FALSE, es |-> << >>]
         ELSE LET rest == ParseEntries(s, i + 3 + s[i+2]) IN
              [ok |-> rest.ok,
               es |-> << [path |-> PartNames[s[i]], bytes |-> s[i+1],
                          sha256 |-> SubSeq(s, i + 3, i + 2 + s[i+2])] >> \o rest.es]

\* json.loads of a manifest text: kind is "object", "null", "array" or "error"
ParseManifest(s) ==
    IF s = << T.null >> THEN [kind |-> "null", parts |-> << >>]
    ELSE IF s = << T.lbracket, T.rbracket >> THEN [kind |-> "array", parts |-> << >>]
    ELSE IF Len(s) >= 4 /\ s[1] = T.lbrace /\ s[Len(s)] = T.rbrace
            /\ ParseEntries(SubSeq(s, 4, Len(s) - 1), 1).ok
         THEN [kind |-> "object", parts |-> ParseEntries(SubSeq(s, 4, Len(s) - 1), 1).es]
         ELSE [kind |-> "error", parts |-> << >>]

\* json.loads of a commit text, and c.get("manifest_sha256", "")
ParseCommit(s) ==
    IF s = << T.null >> THEN [kind |-> "null", manifest_sha256 |-> << >>]
    ELSE IF s = << T.lbracket, T.rbracket >> THEN [kind |-> "array", manifest_sha256 |-> << >>]
    ELSE IF Len(s) >= 6 /\ s[1] = T.lbrace /\ s[Len(s)] = T.rbrace /\ s[5] = Len(s) - 6
         THEN [kind |-> "object", manifest_sha256 |-> SubSeq(s, 6, Len(s) - 1)]
         ELSE [kind |-> "error", manifest_sha256 |-> << >>]

----------------------------------------------------------------------------
(* Fault injection and payload of the group writer (aiwork/group_ckpt.py) *)

\* v ^ (1 << bit)
FlipBit(v, bit) == IF (v \div (2 ^ bit)) % 2 = 1 THEN v - 2 ^ bit ELSE v + 2 ^ bit

\* ba[i] ^= 1 << bit   (i counted from 0)
FlipAt(b, i, bit) ==
    SubSeq(b, 1, i) \o << FlipBit(b[i + 1], bit) >> \o SubSeq(b, i + 2, Len(b))

RECURSIVE Zeros(_)
Zeros(n) == IF n <= 0 THEN << >> ELSE << 0 >> \o Zeros(n - 1)

\* for j in range(start, start+length): ba[j] = 0   (start counted from 0)
ZeroRange(b, start, length) ==
    SubSeq(b, 1, start) \o Zeros(length) \o SubSeq(b, start + length + 1, Len(b))

\* inject_fault of group_ckpt.py: the outcomes over every draw of random
inject_fault_gc(b, mode) ==
    IF mode = "none" \/ Len(b) = 0 THEN {b}
    ELSE IF mode = "bitflip"
         THEN {FlipAt(b, i, bit) : i \in 0..(Len(b) - 1), bit \in Bits}
    ELSE IF mode = "truncate"
         THEN {Prefix(b, Max(1, Len(b) \div 2))}
    ELSE IF mode = "zerorange"
         THEN {ZeroRange(b, start, Min(Len(b) - start, Max(1, Len(b) \div 100))) :
                   start \in 0..(Len(b) - 1)}
    ELSE {b}

\* os.urandom(n): n bytes; one representative draw, none of its bytes zero
RECURSIVE URandom(_)
URandom(n) ==
    IF n <= 0 THEN << >>
    ELSE URandom(n - 1) \o << ((n - 1) % (2 ^ BitsPerByte - 1)) + 1 >>

\* gen_parts: model.bin, optim.bin, rng.json in this order
gen_parts(seed, epoch, kb_model, kb_optim) ==
    << URandom(kb_model), URandom(kb_optim),
       << (seed % (2 ^ BitsPerByte - 1)) + 1, (epoch % (2 ^ BitsPerByte - 1)) + 1 >> >>

----------------------------------------------------------------------------
(* The write helpers, one file-system step per action *)

IoIdle == [op |-> "none", pc |-> "idle", path |-> "", data |-> << >>, partial |-> FALSE]

\* a call of atomic_write_bytes(path, data) or unsafe_write_bytes(path, data, partial)
IoCall(write_mode, path, data, partial) ==
    IF write_mode = "atomic"
    THEN [op |-> "atomic", pc |-> "mkstemp", path |-> path, data |-> data, partial |-> FALSE]
    ELSE [op |-> "unsafe", pc |-> "open", path |-> path, data |-> data, partial |-> partial]

\* the writer process is alive and inside a call
Running == ~w.halt /\ w.pc \notin {"idle", "done", "exited"}

\* tempfile.mkstemp(prefix=".tmp_gc_", dir=path.parent): an empty temp file
AwMkstemp ==
    /\ Running /\ io.op = "atomic" /\ io.pc = "mkstemp"
    /\ fs' = [fs EXCEPT ![TmpPath] = << >>]
    /\ io' = [io EXCEPT !.pc = "write"]
    /\ UNCHANGED <<cfg, w, row>>

\* AwWrite that writes into the destination instead of the temp file
AwWrite_InPlace ==
    /\ Running /\ io.op = "atomic" /\ io.pc = "write"
    /\ \E k \in {0, Len(io.data) \div 2, Len(io.data)} :
           fs' = [fs EXCEPT ![io.path] = Prefix(io.data, k)]
    /\ io' = [io EXCEPT !.pc = "flush"]
    /\ UNCHANGED <<cfg, w, row>>

\* f.write(data): buffered, so the temp file shows some prefix of data
AwWrite ==
    /\ Running /\ io.op = "atomic" /\ io.pc = "write"
    /\ \E k \in {0, Len(io.data) \div 2, Len(io.data)} :
           fs' = [fs EXCEPT ![TmpPath] = Prefix(io.data, k)]
    /\ io' = [io EXCEPT !.pc = "flush"]
    /\ UNCHANGED <<cfg, w, row>>

\* f.flush(); os.fsync(f.fileno()); close: the temp file holds all of data
AwFlushFsync ==
    /\ Running /\ io.op = "atomic" /\ io.pc = "flush"
    /\ fs' = [fs EXCEPT ![TmpPath] = io.data]
    /\ io' = [io EXCEPT !.pc = "replace"]
    /\ UNCHANGED <<cfg, w, row>>

\* os.replace(tmp, path): the one step that changes path
AwReplace ==
    /\ Running /\ io.op = "atomic" /\ io.pc = "replace"
    /\ fs' = [fs EXCEPT ![io.path] = fs[TmpPath], ![TmpPath] = NoFile]
    /\ io' = [io EXCEPT !.pc = "finally"]
    /\ UNCHANGED <<cfg, w, row>>

\* finally: if os.path.exists(tmp): os.remove(tmp)
AwFinally ==
    /\ Running /\ io.op = "atomic" /\ io.pc = "finally"
    /\ fs' = [fs EXCEPT ![TmpPath] = NoFile]
    /\ io' = [io EXCEPT !.pc = "done"]
    /\ UNCHANGED <<cfg, w, row>>

\* unsafe_bytes_gc that ignores partial
unsafe_bytes_gc_Whole(data, partial) == data

\* what unsafe_write_bytes of group_ckpt.py hands to f.write
unsafe_bytes_gc(data, partial) ==
    IF partial /\ Len(data) > 1 THEN Prefix(data, Max(1, Len(data) \div 2)) ELSE data

\* unsafe_bytes that ignores partial
unsafe_bytes_Whole(data, partial) == data

\* what unsafe_write_bytes of ckpt_writer.py and torch_ckpt_writer.py hands to f.write
unsafe_bytes(data, partial) ==
    IF partial THEN Prefix(data, Max(0, Len(data) \div 2)) ELSE data

\* open(path, "wb"): the file is created or cut to nothing
UwOpen ==
    /\ Running /\ io.op = "unsafe" /\ io.pc = "open"
    /\ fs' = [fs EXCEPT ![io.path] = << >>]
    /\ io' = [io EXCEPT !.pc = "write"]
    /\ UNCHANGED <<cfg, w, row>>

\* f.write(..) and the close at the end of the with block (no flush, no fsync)
UwWriteClose ==
    /\ Running /\ io.op = "unsafe" /\ io.pc = "write"
    /\ fs' = [fs EXCEPT ![io.path] = IF cfg.prog = "group"
                                      THEN unsafe_bytes_gc(io.data, io.partial)
                                      ELSE unsafe_bytes(io.data, io.partial)]
    /\ io' = [io EXCEPT !.pc = "done"]
    /\ UNCHANGED <<cfg, w, row>>

\* f.write, f.flush / os.fsync or os.replace raises OSError: a failed write may
\* have put a part of data into the temp file, the other two change no file
AwFail ==
    /\ Running /\ io.op = "atomic" /\ io.pc \in {"write", "flush", "replace"}
    /\ IF io.pc = "write"
       THEN \E k \in {0, Len(io.data) \div 2} :
                fs' = [fs EXCEPT ![TmpPath] = Prefix(io.data, k)]
       ELSE fs' = fs
    /\ io' = [io EXCEPT !.pc = "finally_err"]
    /\ UNCHANGED <<cfg, w, row>>

\* AwFinallyErr of a helper that cleans up and then tries the write again
AwFinallyErr_Retry ==
    /\ Running /\ io.op = "atomic" /\ io.pc = "finally_err"
    /\ fs' = [fs EXCEPT ![TmpPath] = NoFile]
    /\ io' = [io EXCEPT !.pc = "mkstemp"]
    /\ UNCHANGED <<cfg, w, row>>

\* AwFinallyErr of a helper without the finally block
AwFinallyErr_NoCleanup ==
    /\ Running /\ io.op = "atomic" /\ io.pc = "finally_err"
    /\ fs' = fs
    /\ io' = [io EXCEPT !.pc = "raised"]
    /\ w' = [w EXCEPT !.pc = "exited", !.code = 1]
    /\ UNCHANGED <<cfg, row>>

\* finally: if os.path.exists(tmp): os.remove(tmp); then the exception goes on
\* to the caller, and no caller catches it: the process ends with code 1
AwFinallyErr ==
    /\ Running /\ io.op = "atomic" /\ io.pc = "finally_err"
    /\ fs' = [fs EXCEPT ![TmpPath] = NoFile]
    /\ io' = [io EXCEPT !.pc = "raised"]
    /\ w' = [w EXCEPT !.pc = "exited", !.code = 1]
    /\ UNCHANGED <<cfg, row>>

\* open(path, "wb") raises and the file is as it was, or f.write raises after
\* the file was cut and maybe a part of data written; no caller catches it
UwFail ==
    /\ Running /\ io.op = "unsafe" /\ io.pc \in {"open", "write"}
    /\ IF io.pc = "write"
       THEN \E k \in {0, Len(io.data) \div 2} :
                fs' = [fs EXCEPT ![io.path] = Prefix(io.data, k)]
       ELSE fs' = fs
    /\ io' = [io EXCEPT !.pc = "raised"]
    /\ w' = [w EXCEPT !.pc = "exited", !.code = 1]
    /\ UNCHANGED <<cfg, row>>

----------------------------------------------------------------------------
(* write_group (aiwork/group_ckpt.py) *)

\* out is the writer's standard output: the names of the APP_EVENT lines printed
WIdle == [pc |-> "idle", halt |-> FALSE, i |-> 1, manifest |-> << >>,
          man_bytes |-> << >>, raw |-> << >>, code |-> 0, dir_synced |-> FALSE,
          out |-> << >>]

Parts == gen_parts(cfg.seed, cfg.epoch, cfg.kb_model, cfg.kb_optim)

\* 1) write parts: inject the fault, then start the write of part i
GPart ==
    /\ Running /\ w.pc = "parts" /\ io.pc = "idle"
    /\ \E data \in inject_fault_gc(Parts[w.i], cfg.fault) :
           io' = IoCall(cfg.write_mode, PartNames[w.i], data,
                        PartNames[w.i] = "model.bin" /\ cfg.crash_at = "after_model")
    /\ w' = [w EXCEPT !.pc = "part_io"]
    /\ UNCHANGED <<fs, cfg, row>>

\* GPartDone with the loop over the parts ending one part early
GPartDone_EarlyEnd ==
    /\ Running /\ w.pc = "part_io" /\ io.pc = "done"
    /\ w' = [w EXCEPT !.manifest = Append(@, [path |-> PartNames[w.i],
                                               bytes |-> Len(io.data),
                                               sha256 |-> sha256_bytes(io.data)]),
                      !.i = @ + 1,
                      !.pc = IF w.i >= Len(PartNames) - 1 THEN "manifest" ELSE "parts"]
    /\ io' = IoIdle
    /\ UNCHANGED <<fs, cfg, row>>

\* manifest.append({"path": name, "bytes": len(data), "sha256": sha256_bytes(data)})
GPartDone ==
    /\ Running /\ w.pc = "part_io" /\ io.pc = "done"
    /\ w' = [w EXCEPT !.manifest = Append(@, [path |-> PartNames[w.i],
                                               bytes |-> Len(io.data),
                                               sha256 |-> sha256_bytes(io.data)]),
                      !.i = @ + 1,
                      !.pc = IF w.i = Len(PartNames) THEN "manifest" ELSE "parts"]
    /\ io' = IoIdle
    /\ UNCHANGED <<fs, cfg, row>>

\* crash point before_manifest, else 2) start the write of MANIFEST.json
GManifest ==
    /\ Running /\ w.pc = "manifest"
    /\ IF cfg.write_mode = "unsafe" /\ cfg.crash_at = "before_manifest"
       THEN /\ w' = [w EXCEPT !.pc = "exited", !.code = 2]
            /\ io' = io
       ELSE LET man_bytes == ManifestText(cfg.epoch, cfg.seed, w.manifest) IN
            /\ w' = [w EXCEPT !.pc = "manifest_io", !.man_bytes = man_bytes]
            /\ io' = IoCall(cfg.write_mode, ManPath, man_bytes,
                            cfg.crash_at = "manifest_partial")
    /\ UNCHANGED <<fs, cfg, row>>

\* GCommit with crash points that do not ask for the write mode
GCommit_AnyMode ==
    /\ Running /\ w.pc = "manifest_io" /\ io.pc = "done"
    /\ IF cfg.crash_at \in {"before_commit", "manifest_partial"}
       THEN /\ w' = [w EXCEPT !.pc = "exited", !.code = 3]
            /\ io' = IoIdle
       ELSE /\ w' = [w EXCEPT !.pc = "commit_io"]
            /\ io' = IoCall(cfg.write_mode, ComPath,
                            CommitText(cfg.epoch, cfg.seed, sha256_bytes(w.man_bytes), 1),
                            FALSE)
    /\ UNCHANGED <<fs, cfg, row>>

\* crash points before_commit and manifest_partial, else 3) start the write of COMMIT.json
GCommit ==
    /\ Running /\ w.pc = "manifest_io" /\ io.pc = "done"
    /\ IF cfg.write_mode = "unsafe" /\ cfg.crash_at \in {"before_commit", "manifest_partial"}
       THEN /\ w' = [w EXCEPT !.pc = "exited", !.code = 3]
            /\ io' = IoIdle
       ELSE /\ w' = [w EXCEPT !.pc = "commit_io"]
            /\ io' = IoCall(cfg.write_mode, ComPath,
                            CommitText(cfg.epoch, cfg.seed, sha256_bytes(w.man_bytes), 1),
                            FALSE)
    /\ UNCHANGED <<fs, cfg, row>>

\* if dir_fsync: fsync_dir(ep_dir); write_group returns
GReturn ==
    /\ Running /\ w.pc = "commit_io" /\ io.pc = "done"
    /\ w' = [w EXCEPT !.pc = "done",
                      !.dir_synced = (cfg.write_mode = "atomic" /\ cfg.dir_fsync)]
    /\ io' = IoIdle
    /\ UNCHANGED <<fs, cfg, row>>

\* the writer is stopped between two file-system steps (kill, power loss)
Kill ==
    /\ Running
    /\ w' = [w EXCEPT !.halt = TRUE]
    /\ UNCHANGED <<fs, cfg, io, row>>

----------------------------------------------------------------------------
(* scan_dir of the group scanner (guard/group_guard.py), for one epoch directory *)

\* PartVerdict that asks only whether the part is on disk
PartVerdict_Present(d, pt) ==
    IF d[pt.path] = NoFile THEN "missing" ELSE "ok"

\* PartVerdict without the comparison of the digests
PartVerdict_NoSha(d, pt) ==
    IF d[pt.path] = NoFile THEN "missing"
    ELSE IF Len(d[pt.path]) # pt.bytes THEN "size_mismatch"
    ELSE "ok"

\* the check of one manifest entry against the directory d
PartVerdict(d, pt) ==
    IF d[pt.path] = NoFile THEN "missing"
    ELSE IF Len(d[pt.path]) # pt.bytes THEN "size_mismatch"
    ELSE IF sha256_bytes(d[pt.path]) # pt.sha256 THEN "sha_mismatch"
    ELSE "ok"

\* the reason codes the loop over manifest["parts"] appends, in order
RECURSIVE PartNotes(_, _)
PartNotes(d, parts) ==
    IF parts = << >> THEN << >>
    ELSE LET v == PartVerdict(d, Head(parts)) IN
         (IF v = "ok" THEN << >> ELSE << << v, Head(parts).path >> >>)
             \o PartNotes(d, Tail(parts))

\* parts_ok_of that forgives one failure
parts_ok_of_Lenient(failures) == IF failures <= 1 THEN 1 ELSE 0

\* parts_ok = int(failures == 0)
parts_ok_of(failures) == IF failures = 0 THEN 1 ELSE 0

scan_row(d) ==
    LET has_commit   == d[ComPath] # NoFile
        has_manifest == d[ManPath] # NoFile
        man          == IF has_manifest THEN ParseManifest(d[ManPath])
                        ELSE [kind |-> "none", parts |-> << >>]
        manifest_sha == IF has_manifest THEN sha256_bytes(d[ManPath]) ELSE << >>
        man_note     == IF man.kind = "error"
                        THEN << << "manifest_error", "JSONDecodeError" >> >> ELSE << >>
        manifest_is_none == man.kind \in {"none", "error", "null"}
        c            == ParseCommit(d[ComPath])
        pnotes       == PartNotes(d, man.parts)
        \* what the try block over COMMIT.json does: its notes, and whether it
        \* reached the assignments of parts_ok and group_ok
        com_note ==
            IF ~has_commit THEN << << "no_commit", "" >> >>
            ELSE IF c.kind = "error" THEN << << "commit_error", "JSONDecodeError" >> >>
            ELSE IF manifest_is_none THEN << >>
            ELSE IF c.kind # "object" THEN << << "commit_error", "AttributeError" >> >>
            ELSE IF c.manifest_sha256 # manifest_sha
                 THEN << << "commit_manifest_mismatch", "" >> >>
            ELSE IF man.kind # "object" THEN << << "commit_error", "AttributeError" >> >>
            ELSE pnotes
        reached == has_commit /\ c.kind = "object" /\ man.kind = "object"
                   /\ c.manifest_sha256 = manifest_sha
        parts_ok == IF reached THEN parts_ok_of(Len(pnotes)) ELSE 0
    IN  [has_commit   |-> IF has_commit THEN 1 ELSE 0,
         has_manifest |-> IF has_manifest THEN 1 ELSE 0,
         parts_ok     |-> parts_ok,
         group_ok     |-> IF parts_ok = 1 THEN 1 ELSE 0,
         note         |-> man_note \o com_note]

NoRow == [has_commit |-> -1, has_manifest |-> -1, parts_ok |-> -1, group_ok |-> -1,
          note |-> << >>]

\* Scan with a scanner that removes the commit marker of the group it read
Scan_Pruning ==
    /\ ~Running /\ cfg.prog \in {"group", "scan"}
    /\ row' = scan_row(fs)
    /\ fs' = [fs EXCEPT ![ComPath] = NoFile]
    /\ UNCHANGED <<cfg, w, io>>

\* one run of the scanner over the directory of a writer that is not running
Scan ==
    /\ ~Running /\ cfg.prog \in {"group", "scan"}
    /\ row' = scan_row(fs)
    /\ UNCHANGED <<fs, cfg, w, io>>

----------------------------------------------------------------------------
(* The single-checkpoint writers (aiwork/ckpt_writer.py, aiwork/torch_ckpt_writer.py):
   payload, container bytes, digests, fault injection, sidecar *)

\* key_order of the writers, KEY_ORDER of the scanners
KEY_ORDER(prog) ==
    IF prog = "npz" THEN << "W1", "b1", "W2", "b2" >>
    ELSE << "fc1.weight", "fc1.bias", "fc2.weight", "fc2.bias" >>

Keys(prog) == { KEY_ORDER(prog)[i] : i \in 1..Len(KEY_ORDER(prog)) }

\* k.encode("utf-8"): a key as bytes fed to a hash
KeyText(k) ==
    LET names == KEY_ORDER("npz") \o KEY_ORDER("torch")
    IN  CHOOSE i \in 1..Len(names) : names[i] = k

\* An array is its dtype, its shape and its element bytes, one byte each.  The
\* dtype and the shape the writer gives to a key are written 1; an element is
\* NaN or Inf when it is one of the two largest bytes.
NaNByte == 2 ^ BitsPerByte - 1
InfByte == 2 ^ BitsPerByte - 2

\* W1, b1, W2, b2 of ckpt_writer.main and the state of TinyMLP: finite elements
Payload(prog) == [k \in Keys(prog) |-> [dtype |-> 1, shape |-> 1, elem |-> 1]]

\* The container (np.savez, torch.save: a zip archive) holds for each key a
\* header byte that no reader checks (the modification time of the local file
\* header), the array and the checksum of the array, and ends with the end
\* record: its signature and the length of the archive comment, which is 0.
Zip == [hdr |-> 1, eocd |-> 2, comment_len |-> 0]

crc32(a) == (a.dtype + a.shape + a.elem) % (2 ^ BitsPerByte)

MemberBytes(a) == << Zip.hdr, a.dtype, a.shape, a.elem, crc32(a) >>

RECURSIVE MembersBytes(_, _)
MembersBytes(payload, keys) ==
    IF keys = << >> THEN << >>
    ELSE MemberBytes(payload[Head(keys)]) \o MembersBytes(payload, Tail(keys))

\* save_bytes without the end record
save_bytes_NoEnd(payload, keys) == MembersBytes(payload, keys)

\* save_npz_bytes(payload), torch_bytes_from_state_dict(state)
save_bytes(payload, keys) ==
    MembersBytes(payload, keys) \o << Zip.eocd, Zip.comment_len >>

\* the name of the i-th member of an archive written for the keys `keys`
MemberName(keys, i) == IF i <= Len(keys) THEN keys[i] ELSE "extra"

\* load_bytes of a reader that asks for no end record: it returns the members
\* that are whole
load_bytes_NoEnd(b, keys) ==
    LET n   == Len(keys)
        m   == Min(Len(b) \div 5, n + 1)
        at(i) == [dtype |-> b[5 * i - 3], shape |-> b[5 * i - 2], elem |-> b[5 * i - 1]]
    IN  IF b # NoFile /\ \A i \in 1..m : b[5 * i] = crc32(at(i))
        THEN [ok |-> TRUE, arrays |-> [k \in {MemberName(keys, i) : i \in 1..m} |->
                                          at(CHOOSE i \in 1..m : MemberName(keys, i) = k)]]
        ELSE [ok |-> FALSE, arrays |-> << >>]

\* np.load(path) and torch.load(path): the arrays of the members the archive
\* holds (it may hold fewer than the keys, or one more), or an exception
load_bytes(b, keys) ==
    LET n   == Len(keys)
        m   == (Len(b) - 2) \div 5
        at(i) == [dtype |-> b[5 * i - 3], shape |-> b[5 * i - 2], elem |-> b[5 * i - 1]]
        whole == /\ Len(b) >= 2 /\ Len(b) = 5 * m + 2 /\ m <= n + 1
                 /\ b[5 * m + 1] = Zip.eocd
    IN  IF whole /\ \A i \in 1..m : b[5 * i] = crc32(at(i))
        THEN [ok |-> TRUE, arrays |-> [k \in {MemberName(keys, i) : i \in 1..m} |->
                                          at(CHOOSE i \in 1..m : MemberName(keys, i) = k)]]
        ELSE [ok |-> FALSE, arrays |-> << >>]

\* array_digest of the NPZ pipeline hashes arr.dtype.str, tensor_digest of the
\* Torch pipeline hashes str(a.dtype): two different texts for one dtype
DtypeText(prog, dtype) == << (IF prog = "npz" THEN T.dtype_str ELSE T.dtype_name), dtype >>

array_digest(prog, a) == << T.sha >> \o DtypeText(prog, a.dtype) \o << a.shape, a.elem >>

RECURSIVE DigestFeed(_, _, _)
DigestFeed(prog, payload, keys) ==
    IF keys = << >> THEN << >>
    ELSE << KeyText(Head(keys)) >> \o array_digest(prog, payload[Head(keys)])
             \o DigestFeed(prog, payload, Tail(keys))

\* content_digest that feeds the keys in sorted order, whatever key_order says
RECURSIVE SortedKeys(_)
SortedKeys(S) ==
    IF S = {} THEN << >>
    ELSE LET k == CHOOSE x \in S : \A y \in S : KeyText(x) <= KeyText(y)
         IN  << k >> \o SortedKeys(S \ {k})

content_digest_Sorted(prog, payload, key_order) ==
    IF \A i \in 1..Len(key_order) : key_order[i] \in DOMAIN payload
    THEN << T.sha >> \o DigestFeed(prog, payload,
                                   SortedKeys({ key_order[i] : i \in 1..Len(key_order) }))
    ELSE << T.KeyError >>

\* content_digest(payload, key_order); a key that payload lacks raises KeyError
content_digest(prog, payload, key_order) ==
    IF \A i \in 1..Len(key_order) : key_order[i] \in DOMAIN payload
    THEN << T.sha >> \o DigestFeed(prog, payload, key_order)
    ELSE << T.KeyError >>

\* the outcomes of `flips` draws of a byte and a bit to flip
RECURSIVE FlipTimes(_, _)
FlipTimes(b, flips) ==
    IF flips = 0 THEN {b}
    ELSE UNION { FlipTimes(FlipAt(b, i, bit), flips - 1) :
                     i \in 0..(Len(b) - 1), bit \in Bits }

\* inject_fault(raw, mode) of the two writers: every result the random draws allow
inject_fault(raw, mode) ==
    LET n == Len(raw) IN
    IF mode = "none" \/ n = 0 THEN {raw}
    ELSE IF mode = "bitflip" THEN FlipTimes(raw, Max(1, n \div 200000))
    ELSE IF mode = "truncate" THEN { Prefix(raw, Max(0, (n * 7) \div 10)) }
    ELSE IF mode = "zerorange"
         THEN { ZeroRange(raw, start, Min(n - start, Max(1, n \div 100))) :
                    start \in 0..(n - 1) }
    ELSE {raw}

\* MetaText of a writer that stores the digest without its last element
MetaText_ShortDigest(prog, epoch, seed, expected_digest, file_sha_expected) ==
    << T.lbrace, epoch, seed, Len(expected_digest) - 1 >>
        \o SubSeq(expected_digest, 1, Len(expected_digest) - 1)
        \o (IF prog = "torch" THEN << Len(file_sha_expected) >> \o file_sha_expected
            ELSE << >>)
        \o << T.rbrace >>

\* json.dumps(meta): the sidecar text; expected_file_sha256 is a key of the
\* Torch writer's meta only
MetaText(prog, epoch, seed, expected_digest, file_sha_expected) ==
    << T.lbrace, epoch, seed, Len(expected_digest) >> \o expected_digest
        \o (IF prog = "torch" THEN << Len(file_sha_expected) >> \o file_sha_expected
            ELSE << >>)
        \o << T.rbrace >>

\* json.loads of a sidecar and the two meta.get(..): the values, or an exception
ParseMeta(s) ==
    LET n  == Len(s)
        dl == s[4]
        bad == [kind |-> "error", expected_digest |-> << >>, expected_file_sha256 |-> << >>]
    IN  IF ~(n >= 5 /\ s[1] = T.lbrace /\ s[n] = T.rbrace) THEN bad
        ELSE IF ~(dl >= 0 /\ 4 + dl <= n - 1) THEN bad
        ELSE IF 4 + dl = n - 1
             THEN [kind |-> "object", expected_digest |-> SubSeq(s, 5, 4 + dl),
                   expected_file_sha256 |-> << >>]
        ELSE IF s[5 + dl] >= 0 /\ 5 + dl + s[5 + dl] = n - 1
             THEN [kind |-> "object", expected_digest |-> SubSeq(s, 5, 4 + dl),
                   expected_file_sha256 |-> SubSeq(s, 6 + dl, n - 1)]
        ELSE bad

----------------------------------------------------------------------------
(* main of the single-checkpoint writers, for the one checkpoint epoch of a run *)

\* partial = (args.crash_epoch > 0 and epoch == args.crash_epoch)
CrashEpoch == cfg.crash_epoch > 0 /\ cfg.epoch = cfg.crash_epoch

\* the container bytes of the payload before any fault
CleanRaw(prog) == save_bytes(Payload(prog), KEY_ORDER(prog))

\* SMeta of a writer that starts with the write of the checkpoint file
SMeta_CkptFirst ==
    /\ Running /\ w.pc = "ckpt" /\ io.pc = "idle"
    /\ \E raw \in inject_fault(CleanRaw(cfg.prog), cfg.fault) :
           /\ w' = [w EXCEPT !.pc = "meta_io", !.raw = raw]
           /\ io' = IoCall(cfg.write_mode, CkptPath(cfg.prog), raw, CrashEpoch)
    /\ UNCHANGED <<fs, cfg, row>>

\* expected_digest, raw and (Torch) file_sha_expected are taken, the fault is
\* injected into raw, and the write of the sidecar starts
SMeta ==
    /\ Running /\ w.pc = "ckpt" /\ io.pc = "idle"
    /\ LET expected_digest   == content_digest(cfg.prog, Payload(cfg.prog), KEY_ORDER(cfg.prog))
           file_sha_expected == sha256_bytes(CleanRaw(cfg.prog))
       IN  /\ \E raw \in inject_fault(CleanRaw(cfg.prog), cfg.fault) :
                  w' = [w EXCEPT !.pc = "meta_io", !.raw = raw]
           /\ io' = IoCall("atomic", MetaPath(cfg.prog),
                           MetaText(cfg.prog, cfg.epoch, cfg.seed, expected_digest,
                                    file_sha_expected),
                           FALSE)
    /\ UNCHANGED <<fs, cfg, row>>

\* the write of the checkpoint file starts, in the configured write mode
SCkpt ==
    /\ Running /\ w.pc = "meta_io" /\ io.pc = "done"
    /\ w' = [w EXCEPT !.pc = "ckpt_io"]
    /\ io' = IoCall(cfg.write_mode, CkptPath(cfg.prog), w.raw, CrashEpoch)
    /\ UNCHANGED <<fs, cfg, row>>

\* checkpoint_saved is printed; on the crash epoch simulated_crash and os._exit(1)
SSaved ==
    /\ Running /\ w.pc = "ckpt_io" /\ io.pc = "done"
    /\ w' = IF CrashEpoch
            THEN [w EXCEPT !.pc = "exited", !.code = 1,
                           !.out = @ \o <<"checkpoint_saved", "simulated_crash">>]
            ELSE [w EXCEPT !.pc = "done", !.out = Append(@, "checkpoint_saved")]
    /\ io' = IoIdle
    /\ UNCHANGED <<fs, cfg, row>>

----------------------------------------------------------------------------
(* scan_dir of the single-file scanners (guard/integrity_guard.py,
   guard/integrity_guard_pt.py), for one checkpoint file *)

Flag(b) == IF b THEN 1 ELSE 0

\* corrupted_of with a digest term that does not ask whether a digest was declared
corrupted_of_Strict(load_ok, nan_total, inf_total, shape_ok, digest_set, digest_match, file_sha_set, file_sha_match) ==
    \/ ~load_ok
    \/ nan_total > 0
    \/ inf_total > 0
    \/ ~shape_ok
    \/ ~digest_match
    \/ file_sha_set /\ ~file_sha_match

\* corrupted = int(..): the final decision (the NPZ scanner always passes
\* expected_file_sha_present = FALSE)
corrupted_of(load_ok, nan_total, inf_total, shape_ok, digest_set, digest_match, file_sha_set, file_sha_match) ==
    \/ ~load_ok
    \/ nan_total > 0
    \/ inf_total > 0
    \/ ~shape_ok
    \/ digest_set /\ ~digest_match
    \/ file_sha_set /\ ~file_sha_match

scan_ckpt(prog, d) ==
    LET path     == CkptPath(prog)
        sidecar  == MetaPath(prog)
        file_sha == sha256_bytes(d[path])
        has_meta == d[sidecar] # NoFile
        meta     == IF has_meta THEN ParseMeta(d[sidecar])
                    ELSE [kind |-> "none", expected_digest |-> << >>,
                          expected_file_sha256 |-> << >>]
        meta_note == IF meta.kind = "error" THEN << "meta_error" >> ELSE << >>
        expected_digest   == meta.expected_digest
        expected_present  == expected_digest # << >>
        expected_file_sha == IF prog = "torch" THEN meta.expected_file_sha256 ELSE << >>
        expected_file_sha_present == expected_file_sha # << >>
        ld       == load_bytes(d[path], KEY_ORDER(prog))
        load_ok  == ld.ok
        load_note == IF load_ok THEN << >> ELSE << "load_error" >>
        nan_total == IF load_ok
                     THEN Cardinality({k \in DOMAIN ld.arrays : ld.arrays[k].elem = NaNByte})
                     ELSE 0
        inf_total == IF load_ok
                     THEN Cardinality({k \in DOMAIN ld.arrays : ld.arrays[k].elem = InfByte})
                     ELSE 0
        \* EXPECTED: the shape of every key and, in the NPZ scanner, its dtype
        shape_ok == /\ load_ok
                    /\ \A k \in Keys(prog) :
                           /\ k \in DOMAIN ld.arrays
                           /\ ld.arrays[k].shape = 1
                           /\ prog = "npz" => ld.arrays[k].dtype = 1
        shape_note == IF load_ok /\ ~shape_ok THEN << "shape_mismatch" >> ELSE << >>
        digest_loaded == IF load_ok /\ expected_present
                         THEN content_digest(prog, ld.arrays, KEY_ORDER(prog))
                         ELSE << >>
        digest_raised == digest_loaded = << T.KeyError >>
        digest_match  == load_ok /\ expected_present /\ digest_loaded = expected_digest
        digest_note   == IF ~(load_ok /\ expected_present) \/ digest_match THEN << >>
                         ELSE IF digest_raised THEN << "digest_error" >>
                         ELSE << "digest_mismatch" >>
        file_sha_match == expected_file_sha_present /\ file_sha = expected_file_sha
        file_note == IF expected_file_sha_present /\ ~file_sha_match
                     THEN << "file_sha_mismatch" >> ELSE << >>
        corrupted == corrupted_of(load_ok, nan_total, inf_total, shape_ok,
                                  expected_present, digest_match,
                                  expected_file_sha_present, file_sha_match)
    IN  IF prog = "npz" /\ digest_raised
        THEN [raised |-> "KeyError"]
        ELSE IF prog = "npz"
        THEN [load_ok |-> Flag(load_ok), nan_total |-> nan_total,
              inf_total |-> inf_total, shape_ok |-> Flag(shape_ok),
              expected_digest_present |-> Flag(expected_present),
              digest_match |-> Flag(digest_match),
              corrupted |-> Flag(corrupted),
              note |-> meta_note \o load_note \o shape_note \o digest_note]
        ELSE [load_ok |-> Flag(load_ok), nan_total |-> nan_total,
              inf_total |-> inf_total, shape_ok |-> Flag(shape_ok),
              expected_digest_present |-> Flag(expected_present),
              digest_match |-> Flag(digest_match),
              expected_file_sha_present |-> Flag(expected_file_sha_present),
              file_sha_match |-> Flag(file_sha_match),
              corrupted |-> Flag(corrupted),
              note |-> meta_note \o load_note \o shape_note \o digest_note \o file_note]

\* the report of a scan that found no checkpoint file
EmptyReport == [rows |-> 0]

\* one run of the matching scanner over the directory of a writer that is not running
ScanCkpt ==
    /\ ~Running /\ cfg.prog \in {"npz", "torch"}
    /\ row' = IF fs[CkptPath(cfg.prog)] = NoFile THEN EmptyReport
              ELSE scan_ckpt(cfg.prog, fs)
    /\ UNCHANGED <<fs, cfg, w, io>>

----------------------------------------------------------------------------
(* One run of a writer into a fresh directory, stopped at any step, then
   scanned *)

WriteModes == {"atomic", "unsafe"}
Faults == {"none", "bitflip", "truncate", "zerorange"}
CrashPoints == {"none", "after_model", "before_manifest", "manifest_partial", "before_commit"}

EmptyDir == [p \in Paths |-> NoFile]

\* the command lines of group_ckpt.py (one epoch: --epochs 3 --every 3)
GroupConfigs ==
    [prog : {"group"}, write_mode : WriteModes, fault : Faults, crash_at : CrashPoints,
     dir_fsync : BOOLEAN, epoch : {3}, seed : {0},
     kb_model : 0..MaxKb, kb_optim : 0..MaxKb]

\* the command lines of ckpt_writer.py and torch_ckpt_writer.py
\* (--epochs 3 --checkpoint-every 3, with or without --crash-epoch 3)
SingleConfigs ==
    [prog : {"npz", "torch"}, write_mode : WriteModes, fault : Faults,
     crash_epoch : {-1, 3}, epoch : {3}, seed : {0}]

Init ==
    /\ cfg \in GroupConfigs \cup SingleConfigs
    /\ fs = EmptyDir
    /\ w = [WIdle EXCEPT !.pc = IF cfg.prog = "group" THEN "parts" ELSE "ckpt"]
    /\ io = IoIdle
    /\ row = NoRow

WriterStep ==
    \/ GPart \/ GPartDone \/ GManifest \/ GCommit \/ GReturn
    \/ SMeta \/ SCkpt \/ SSaved
    \/ AwMkstemp \/ AwWrite \/ AwFlushFsync \/ AwReplace \/ AwFinally
    \/ UwOpen \/ UwWriteClose

Next == WriterStep \/ Kill \/ Scan \/ ScanCkpt

Spec == Init /\ [][Next]_vars

----------------------------------------------------------------------------
(* The group scanner over an arbitrary epoch directory *)

\* contents a part file may hold: two of one size, one of another
ScanBlobs == { << 1 >>, << 2 >>, << 1, 2 >> }

\* the entries a manifest may hold for a part: none, or a size and a digest
ScanEntries(name) ==
    { << >> } \cup
    { << [path |-> name, bytes |-> n, sha256 |-> sha256_bytes(b)] >> :
          n \in {1, 2}, b \in ScanBlobs }

ScanManifests ==
    LET full == { ManifestText(3, 0, e1 \o e2 \o e3) :
                      e1 \in ScanEntries("model.bin"), e2 \in ScanEntries("optim.bin"),
                      e3 \in { << >>,
                               << [path |-> "rng.json", bytes |-> 1,
                                   sha256 |-> sha256_bytes(<< 1 >>)] >> } }
    IN  full \cup { Prefix(m, Len(m) \div 2) : m \in full }
             \cup { << T.null >>, << T.lbracket, T.rbracket >>, NoFile }

\* COMMIT.json for a directory whose manifest file holds m
ScanCommits(m) ==
    LET full == { CommitText(3, 0, h, 1) :
                      h \in { sha256_bytes(m), sha256_bytes(<< T.null >>), << >> } }
    IN  full \cup { Prefix(c, Len(c) \div 2) : c \in full }
             \cup { << T.null >>, << T.lbracket, T.rbracket >>, NoFile }

InitScan ==
    /\ \E m \in ScanManifests, p1, p2 \in ScanBlobs \cup {NoFile}, p3 \in {<< 1 >>, NoFile} :
         \E c \in ScanCommits(m) :
           fs = [EmptyDir EXCEPT !["model.bin"] = p1, !["optim.bin"] = p2,
                                 !["rng.json"] = p3, ![ManPath] = m, ![ComPath] = c]
    /\ cfg = [prog |-> "scan"]
    /\ w = WIdle
    /\ io = IoIdle
    /\ row = NoRow

SpecScan == InitScan /\ [][Scan]_vars

----------------------------------------------------------------------------
(* One call of atomic_write_bytes over a path that holds old content or no
   file, stopped at any step, with a reader of the path *)

AtomicOlds == { NoFile, << >>, << 1 >>, << 1, 2 >>, << 2, 1, 3 >> }
AtomicNews == { << >>, << 2 >>, << 1, 2 >>, << 1, 2, 3 >> }

InitAtomic ==
    /\ \E p \in {"model.bin", ManPath}, old \in AtomicOlds, new \in AtomicNews :
         /\ cfg = [prog |-> "atomic_write", path |-> p, old |-> old, new |-> new]
         /\ fs = [EmptyDir EXCEPT ![p] = old]
         /\ io = IoCall("atomic", p, new, FALSE)
    /\ w = [WIdle EXCEPT !.pc = "call"]
    /\ row = NoRow

\* a reader opens the path and reads it to the end, at any moment
ReadPath ==
    /\ row' = [got |-> fs[cfg.path]]
    /\ UNCHANGED <<fs, cfg, w, io>>

NextAtomic ==
    \/ AwMkstemp \/ AwWrite \/ AwFlushFsync \/ AwReplace \/ AwFinally
    \/ Kill \/ ReadPath

SpecAtomic == InitAtomic /\ [][NextAtomic]_vars

\* write_group (fault=none, no fsync of the directory) into a fresh directory,
\* with a file-system failure possible at every step of every write, stopped
\* at any step, then scanned
InitGroupFail ==
    /\ cfg \in { c \in GroupConfigs : c.fault = "none" /\ ~c.dir_fsync }
    /\ fs = EmptyDir
    /\ w = [WIdle EXCEPT !.pc = "parts"]
    /\ io = IoIdle
    /\ row = NoRow

NextGroupFail ==
    \/ GPart \/ GPartDone \/ GManifest \/ GCommit \/ GReturn
    \/ AwMkstemp \/ AwWrite \/ AwFlushFsync \/ AwReplace \/ AwFinally
    \/ UwOpen \/ UwWriteClose
    \/ AwFail \/ AwFinallyErr \/ UwFail
    \/ Kill \/ Scan

SpecGroupFail == InitGroupFail /\ [][NextGroupFail]_vars

\* the same call, with a file-system failure possible at each of its steps
NextAtomicFail == NextAtomic \/ AwFail \/ AwFinallyErr

SpecAtomicFail == InitAtomic /\ [][NextAtomicFail]_vars

----------------------------------------------------------------------------
(* Rollback (guard/rollback.py, guard/group_rollback.py): the scan report is
   the sequence of its CSV rows; the artifact of an epoch is a checkpoint file
   or an epoch directory; the alias is a symbolic link *)

Epochs == 1..MaxEpoch

\* the artifact of epoch e under the checkpoint root
ArtifactPath(e) == << "ckpt_epoch", e >>
LinkPath == << "latest_ok" >>
TmpLinkPath == << ".tmp_link_" >>
RbPaths == { ArtifactPath(e) : e \in Epochs } \cup { LinkPath, TmpLinkPath }

\* a symbolic link to the artifact of epoch e
LinkTo(e) == << T.symlink, e >>

\* a CSV row of integrity_guard.py / integrity_guard_pt.py and of group_guard.py;
\* a cell that is no integer text is written T.null
CkptRow(e, corrupted) == [epoch |-> e, corrupted |-> corrupted, file |-> ArtifactPath(e)]
GroupRow(e, group_ok) == [epoch |-> e, group_ok |-> group_ok, dir |-> ArtifactPath(e)]

\* rows.append(row) unless int(..) raised
RECURSIVE ReadRows(_)
ReadRows(rows) ==
    IF rows = << >> THEN << >>
    ELSE (IF Head(rows).epoch = T.null \/ Head(rows).corrupted = T.null
          THEN << >> ELSE << Head(rows) >>) \o ReadRows(Tail(rows))

\* OkRows without the test of the corrupted column
RECURSIVE OkRows_Any(_)
OkRows_Any(rows) ==
    IF rows = << >> THEN << >>
    ELSE (IF Head(rows).epoch >= 0 /\ Head(rows).file # << >>
          THEN << Head(rows) >> ELSE << >>) \o OkRows_Any(Tail(rows))

\* ok = [r for r in rows if r["corrupted"]==0 and r["epoch"]>=0 and r.get("file")]
RECURSIVE OkRows(_)
OkRows(rows) ==
    IF rows = << >> THEN << >>
    ELSE (IF Head(rows).corrupted = 0 /\ Head(rows).epoch >= 0 /\ Head(rows).file # << >>
          THEN << Head(rows) >> ELSE << >>) \o OkRows(Tail(rows))

\* max(ok, key=lambda r: r["epoch"]): the first row of the largest epoch
RECURSIVE MaxByEpoch(_, _)
MaxByEpoch(best, rest) ==
    IF rest = << >> THEN best
    ELSE MaxByEpoch(IF Head(rest).epoch > best.epoch THEN Head(rest) ELSE best, Tail(rest))

\* pick_latest_ok that keeps the last row with group_ok == 1
RECURSIVE pick_latest_ok_LastOk(_, _, _)
pick_latest_ok_LastOk(rows, best_epoch, best_dir) ==
    IF rows = << >> THEN best_dir
    ELSE LET r == Head(rows) IN
         IF r.group_ok # T.null /\ r.epoch # T.null /\ r.group_ok = 1
         THEN pick_latest_ok_LastOk(Tail(rows), r.epoch, r.dir)
         ELSE pick_latest_ok_LastOk(Tail(rows), best_epoch, best_dir)

\* pick_latest_ok(scan_csv), from best_epoch = -1 and best_dir = None
RECURSIVE pick_latest_ok(_, _, _)
pick_latest_ok(rows, best_epoch, best_dir) ==
    IF rows = << >> THEN best_dir
    ELSE LET r == Head(rows) IN
         IF r.group_ok # T.null /\ r.epoch # T.null /\ r.group_ok = 1 /\ r.epoch > best_epoch
         THEN pick_latest_ok(Tail(rows), r.epoch, r.dir)
         ELSE pick_latest_ok(Tail(rows), best_epoch, best_dir)

\* best_dir = None
NoTarget == << T.null >>

\* the rollback process: program counter, the chosen target, the exit code, and
\* what the alias held when the process started
RbIdle == [pc |-> "idle", halt |-> FALSE, best |-> NoTarget, code |-> 0, link0 |-> NoFile]

\* the link that os.symlink makes for a target
LinkOf(target) == LinkTo(target[2])

\* rollback.py main, up to the decision: read the rows, keep the ok ones, exit
\* when there is none, take the best, exit when its file is not on disk
RbPick ==
    /\ Running /\ cfg.prog = "rollback" /\ w.pc = "read_csv"
    /\ LET ok == IF row = NoRow THEN << >> ELSE OkRows(ReadRows(row)) IN
       IF ok = << >>
       THEN w' = [w EXCEPT !.pc = "exited", !.code = 1]
       ELSE LET best == MaxByEpoch(Head(ok), Tail(ok)) IN
            IF fs[best.file] = NoFile
            THEN w' = [w EXCEPT !.pc = "exited", !.code = 1]
            ELSE w' = [w EXCEPT !.pc = "unlink", !.best = best.file]
    /\ UNCHANGED <<fs, cfg, io, row>>

\* if out_link.exists() or out_link.is_symlink(): out_link.unlink()
RbUnlink ==
    /\ Running /\ cfg.prog = "rollback" /\ w.pc = "unlink"
    /\ fs' = [fs EXCEPT ![LinkPath] = NoFile]
    /\ w' = [w EXCEPT !.pc = "symlink"]
    /\ UNCHANGED <<cfg, io, row>>

\* os.symlink(ckpt_path.resolve(), out_link)
RbSymlink ==
    /\ Running /\ cfg.prog = "rollback" /\ w.pc = "symlink"
    /\ fs' = [fs EXCEPT ![LinkPath] = LinkOf(w.best)]
    /\ w' = [w EXCEPT !.pc = "done"]
    /\ UNCHANGED <<cfg, io, row>>

\* group_rollback.py main, up to the decision: exit when the CSV is missing or
\* pick_latest_ok returns None
GrPick ==
    /\ Running /\ cfg.prog = "group_rollback" /\ w.pc = "read_csv"
    /\ LET target == IF row = NoRow THEN NoTarget ELSE pick_latest_ok(row, -1, NoTarget) IN
       IF target = NoTarget
       THEN w' = [w EXCEPT !.pc = "exited", !.code = 1]
       ELSE w' = [w EXCEPT !.pc = "symlink_tmp", !.best = target]
    /\ UNCHANGED <<fs, cfg, io, row>>

\* atomic_update_symlink: os.symlink(rel, tmp)
GrSymlinkTmp ==
    /\ Running /\ cfg.prog = "group_rollback" /\ w.pc = "symlink_tmp"
    /\ fs' = [fs EXCEPT ![TmpLinkPath] = LinkOf(w.best)]
    /\ w' = [w EXCEPT !.pc = "replace"]
    /\ UNCHANGED <<cfg, io, row>>

\* atomic_update_symlink: os.replace(tmp, link_path); the alias is a link or
\* absent, so the rename does not raise
GrReplace ==
    /\ Running /\ cfg.prog = "group_rollback" /\ w.pc = "replace"
    /\ fs' = [fs EXCEPT ![LinkPath] = fs[TmpLinkPath], ![TmpLinkPath] = NoFile]
    /\ w' = [w EXCEPT !.pc = "done"]
    /\ UNCHANGED <<cfg, io, row>>

RollbackStep ==
    \/ RbPick \/ RbUnlink \/ RbSymlink
    \/ GrPick \/ GrSymlinkTmp \/ GrReplace

----------------------------------------------------------------------------
(* One rollback over an arbitrary scan report, stopped at any step *)

\* what a cell of the verdict column may hold: valid, not valid, no integer
Verdicts == {"ok", "bad", "junk"}

ReportRow(prog, e, v) ==
    IF prog = "rollback"
    THEN CkptRow(e, IF v = "ok" THEN 0 ELSE IF v = "bad" THEN 1 ELSE T.null)
    ELSE GroupRow(e, IF v = "ok" THEN 1 ELSE IF v = "bad" THEN 0 ELSE T.null)

\* the reports of prog: at most one row for an epoch, the rows in any order
Reports(prog) ==
    LET rowset == { ReportRow(prog, e, v) : e \in Epochs, v \in Verdicts }
        seqs   == UNION { [1..k -> rowset] : k \in 0..MaxEpoch }
    IN  { r \in seqs : \A i, j \in 1..Len(r) : r[i].epoch = r[j].epoch => i = j }

\* a checkpoint root in which the artifacts of the epochs in present exist
RbDir(present, link) ==
    [p \in RbPaths |->
        IF p = LinkPath THEN link
        ELSE IF p = TmpLinkPath THEN NoFile
        ELSE IF p[2] \in present THEN << 1 >> ELSE NoFile]

InitRollback ==
    /\ cfg \in [prog : {"rollback", "group_rollback"}]
    /\ row \in Reports(cfg.prog)
    /\ \E present \in SUBSET Epochs, link \in {NoFile, LinkTo(1)} :
           fs = RbDir(present, link)
    /\ w = [RbIdle EXCEPT !.pc = "read_csv", !.link0 = fs[LinkPath]]
    /\ io = IoIdle

NextRollback == RollbackStep \/ Kill

SpecRollback == InitRollback /\ [][NextRollback]_vars

----------------------------------------------------------------------------
(* Writer runs, scans and rollbacks over one checkpoint root, one after the
   other *)

\* the content of an artifact that scans as valid, and of one that does not
GoodArtifact == << 1 >>
BadArtifact == << 0 >>

\* no rollback process is at work
RbAtRest == w.pc \in {"idle", "done", "exited"}

\* a writer run writes, or writes again, the artifact of an epoch
LfWrite ==
    /\ RbAtRest
    /\ \E e \in Epochs, content \in {GoodArtifact, BadArtifact} :
           fs' = [fs EXCEPT ![ArtifactPath(e)] = content]
    /\ w' = RbIdle
    /\ UNCHANGED <<cfg, io, row>>

\* the rows of a full scan, for the epochs es in increasing order
RECURSIVE ScanRows(_, _, _)
ScanRows(prog, d, e) ==
    IF e > MaxEpoch THEN << >>
    ELSE (IF d[ArtifactPath(e)] = NoFile THEN << >>
          ELSE << ReportRow(prog, e, IF d[ArtifactPath(e)] = GoodArtifact
                                    THEN "ok" ELSE "bad") >>)
         \o ScanRows(prog, d, e + 1)

\* a full scan replaces the report
LfScan ==
    /\ RbAtRest
    /\ row' = ScanRows(cfg.prog, fs, 1)
    /\ w' = RbIdle
    /\ UNCHANGED <<fs, cfg, io>>

\* a rollback is invoked
LfInvoke ==
    /\ RbAtRest
    /\ w' = [RbIdle EXCEPT !.pc = "read_csv", !.link0 = fs[LinkPath]]
    /\ UNCHANGED <<fs, cfg, io, row>>

InitLife ==
    /\ cfg \in [prog : {"rollback", "group_rollback"}]
    /\ row = NoRow
    /\ fs = RbDir({}, NoFile)
    /\ w = RbIdle
    /\ io = IoIdle

NextLife == LfWrite \/ LfScan \/ LfInvoke \/ RollbackStep

SpecLife == InitLife /\ [][NextLife]_vars

----------------------------------------------------------------------------
(* The verify and watch modes (ckpt_integrity/guard/verify_and_watch.py) over
   one checkpoint file, its .meta.json and the last-good copy *)

WatchedPath == << "ckpt.pt" >>
WatchedMetaPath == << "ckpt.meta.json" >>
LastGoodPath == << "last-good.pt" >>
\* the modification time of a file is kept beside its content
MtimePath(p) == << "mtime" >> \o p
WatchPaths == { WatchedPath, WatchedMetaPath, LastGoodPath,
                MtimePath(WatchedPath), MtimePath(LastGoodPath) }

\* the checkpoint contents of this part of the model: one byte
WatchBlobs == { << b >> : b \in Byte }

\* write_meta(ckpt_path, ..): the JSON text, of which only "sha256" is read back
write_meta(b) == << T.lbrace >> \o sha256_bytes(b) \o << T.rbrace >>

\* read_meta(ckpt_path): None when the file is missing, else json.load, which
\* raises on a text that is not a whole object
read_meta(d) ==
    LET t == d[WatchedMetaPath]
        n == Len(t)
    IN  IF t = NoFile THEN [kind |-> "none", sha256 |-> << T.null >>]
        ELSE IF ~(n >= 2 /\ t[1] = T.lbrace /\ t[n] = T.rbrace)
             THEN [kind |-> "raised", sha256 |-> << T.null >>]
        ELSE IF n = 2 THEN [kind |-> "empty", sha256 |-> << T.null >>]
        ELSE [kind |-> "object", sha256 |-> SubSeq(t, 2, n - 1)]

\* verify_once(path): not ok when there is no meta (None or {}), else the
\* comparison of sha256_file(path) with meta.get("sha256")
verify_once(d) ==
    LET meta == read_meta(d) IN
    IF meta.kind = "raised" THEN [raised |-> TRUE, ok |-> FALSE]
    ELSE IF meta.kind \in {"none", "empty"} THEN [raised |-> FALSE, ok |-> FALSE]
    ELSE [raised |-> FALSE, ok |-> sha256_bytes(d[WatchedPath]) = meta.sha256]

\* stop is a request to end the watch loop, made from outside the loop
WatchIdle == [pc |-> "idle", halt |-> FALSE, ok |-> FALSE, rolled |-> FALSE,
              seen |-> T.null, code |-> 0, stop |-> FALSE]

\* for p in glob("*.pt"): skip the file when its mtime is the remembered one,
\* else remember the mtime
VwGlob ==
    /\ Running /\ cfg.prog = "watch" /\ w.pc = "glob"
    /\ LET mtime == fs[MtimePath(WatchedPath)][1] IN
       IF w.seen = mtime
       THEN w' = [w EXCEPT !.pc = "sleep"]
       ELSE w' = [w EXCEPT !.pc = "verify_once", !.seen = mtime, !.rolled = FALSE]
    /\ UNCHANGED <<fs, cfg, io, row>>

\* ok, info = verify_once(path); an exception of read_meta ends the process
VwVerify ==
    /\ Running /\ cfg.prog \in {"verify", "watch"} /\ w.pc = "verify_once"
    /\ LET r == verify_once(fs) IN
       IF r.raised THEN w' = [w EXCEPT !.pc = "exited", !.code = 1]
       ELSE IF ~r.ok THEN w' = [w EXCEPT !.pc = "rollback", !.ok = FALSE]
       ELSE w' = [w EXCEPT !.ok = TRUE,
                           !.pc = IF cfg.prog = "watch" THEN "append_event" ELSE "done"]
    /\ UNCHANGED <<fs, cfg, io, row>>

\* rollback(dst, last_good): False when last_good is not on disk, else
\* shutil.copy2(last_good, dst), which copies the content and the mtime
VwRollback ==
    /\ Running /\ w.pc = "rollback"
    /\ IF fs[LastGoodPath] = NoFile
       THEN /\ w' = [w EXCEPT !.pc = IF cfg.prog = "watch" THEN "append_event" ELSE "done"]
            /\ fs' = fs
       ELSE /\ w' = [w EXCEPT !.rolled = TRUE, !.pc = "append_event"]
            /\ fs' = [fs EXCEPT ![WatchedPath] = fs[LastGoodPath],
                                ![MtimePath(WatchedPath)] = fs[MtimePath(LastGoodPath)]]
    /\ UNCHANGED <<cfg, io, row>>

\* append_event(args.events, {..}): one more row in the events file
VwAppendEvent ==
    /\ Running /\ w.pc = "append_event"
    /\ row' = Append(row, [mode |-> cfg.prog, ok |-> w.ok, rolled |-> w.rolled])
    /\ w' = [w EXCEPT !.pc = IF cfg.prog = "watch" THEN "sleep" ELSE "done"]
    /\ UNCHANGED <<fs, cfg, io>>

\* time.sleep(args.interval), then the next round of the loop
VwSleep ==
    /\ Running /\ cfg.prog = "watch" /\ w.pc = "sleep"
    /\ w' = [w EXCEPT !.pc = "glob"]
    /\ UNCHANGED <<fs, cfg, io, row>>

WatchStep == VwGlob \/ VwVerify \/ VwRollback \/ VwAppendEvent \/ VwSleep

\* the sidecar texts a directory can hold: none, {}, a torn one, a whole one
WatchMetas ==
    { NoFile, << T.lbrace, T.rbrace >> }
        \cup { write_meta(b) : b \in WatchBlobs }
        \cup { Prefix(write_meta(b), 2) : b \in WatchBlobs }

WatchDir(ckpt, meta, good) ==
    [p \in WatchPaths |->
        IF p = WatchedPath THEN ckpt
        ELSE IF p = WatchedMetaPath THEN meta
        ELSE IF p = LastGoodPath THEN good
        ELSE IF p = MtimePath(WatchedPath) THEN << 1 >>
        ELSE IF good = NoFile THEN NoFile ELSE << 0 >>]

InitWatch ==
    /\ cfg \in [prog : {"verify", "watch"}]
    /\ \E ckpt \in WatchBlobs, meta \in WatchMetas, good \in WatchBlobs \cup {NoFile} :
           fs = WatchDir(ckpt, meta, good)
    /\ w = [WatchIdle EXCEPT !.pc = IF cfg.prog = "watch" THEN "glob" ELSE "verify_once"]
    /\ io = IoIdle
    /\ row = << >>

NextWatch == WatchStep \/ Kill

SpecWatch == InitWatch /\ [][NextWatch]_vars

\* a stop of the loop is requested while the process runs; main has no
\* statement that reads such a request (the loop is "while True")
VwStopRequest ==
    /\ Running /\ ~w.stop
    /\ w' = [w EXCEPT !.stop = TRUE]
    /\ UNCHANGED <<fs, cfg, io, row>>

NextWatchStop == WatchStep \/ VwStopRequest

\* the process is scheduled: a statement that can run does run
SpecWatchStop == InitWatch /\ [][NextWatchStop]_vars /\ WF_vars(WatchStep)

----------------------------------------------------------------------------
(* The single-file scanners over any directory of one checkpoint file and its
   sidecar *)

\* the arrays a checkpoint file can hold for a key
ScanArrays == [dtype : {1, 2}, shape : {1, 2}, elem : Byte]

\* the payload of the writer, with at most one key holding another array
ScanPayloads(prog) ==
    { [k \in Keys(prog) |-> IF k = k1 THEN a ELSE Payload(prog)[k]] :
          k1 \in Keys(prog), a \in ScanArrays }

\* the checkpoint files: absent, empty, whole archives of the payloads above,
\* archives that lack the last keys or hold one more, the first half of the
\* clean archive, and the clean archive with one damaged checksum
ScanCkpts(prog) ==
    LET keys == KEY_ORDER(prog) IN
    { NoFile, << >>, Prefix(CleanRaw(prog), Len(CleanRaw(prog)) \div 2) }
        \cup { save_bytes(pl, keys) : pl \in ScanPayloads(prog) }
        \cup { save_bytes(Payload(prog), SubSeq(keys, 1, m)) : m \in 0..(Len(keys) - 1) }
        \cup { MembersBytes(Payload(prog), keys) \o MemberBytes(a)
                   \o << Zip.eocd, Zip.comment_len >> : a \in ScanArrays }
        \cup { FlipAt(CleanRaw(prog), 5 * i - 1, 0) : i \in 1..Len(keys) }

\* the sidecars: absent, torn, and whole ones that declare the digest and the
\* file hash of the clean checkpoint, other ones, empty ones, or none
ScanSidecars(prog) ==
    LET digest == content_digest(prog, Payload(prog), KEY_ORDER(prog))
        other  == << T.sha, 0 >>
        sha    == sha256_bytes(CleanRaw(prog))
        whole  == { MetaText("npz", 3, 0, d, << >>) : d \in {digest, other, << >>} }
                    \cup { MetaText("torch", 3, 0, d, f) :
                               d \in {digest, other, << >>}, f \in {sha, other, << >>} }
    IN  whole \cup { NoFile, Prefix(MetaText("npz", 3, 0, digest, << >>), 3) }

InitScanCkpt ==
    /\ cfg \in [prog : {"npz", "torch"}]
    /\ \E c \in ScanCkpts(cfg.prog), m \in ScanSidecars(cfg.prog) :
           fs = [EmptyDir EXCEPT ![CkptPath(cfg.prog)] = c, ![MetaPath(cfg.prog)] = m]
    /\ w = WIdle
    /\ io = IoIdle
    /\ row = NoRow

SpecScanCkpt == InitScanCkpt /\ [][ScanCkpt]_vars

----------------------------------------------------------------------------
(* Calls of content_digest(payload, key_order), of the NPZ and of the Torch
   pipeline, on one payload *)

\* calls of content_digest in one behaviour
MaxCalls == 2

DigestKeys == {"W1", "b1", "W2"}
DigestArrays == [dtype : {1}, shape : {1}, elem : {1, 2}]

\* the payloads: any of the keys, each with one of the arrays
DigestPayloads == UNION { [S -> DigestArrays] : S \in SUBSET DigestKeys }

\* the key orders: the lists of distinct keys
DigestOrders ==
    { o \in UNION { [1..n -> DigestKeys] : n \in 0..Cardinality(DigestKeys) } :
          \A i, j \in 1..Len(o) : o[i] = o[j] => i = j }

\* one call: the pipeline, the key order, and what the call returned
DigestCall ==
    /\ cfg.prog = "digest" /\ Len(row) < MaxCalls
    /\ \E prog \in {"npz", "torch"}, key_order \in DigestOrders :
           row' = Append(row, [prog |-> prog, key_order |-> key_order,
                               digest |-> content_digest(prog, cfg.payload, key_order)])
    /\ UNCHANGED <<fs, cfg, w, io>>

InitDigest ==
    /\ cfg \in [prog : {"digest"}, payload : DigestPayloads]
    /\ fs = EmptyDir
    /\ w = WIdle
    /\ io = IoIdle
    /\ row = << >>

SpecDigest == InitDigest /\ [][DigestCall]_vars

----------------------------------------------------------------------------
(* Runs of a writer's fault injection on the same clean bytes: the state of
   the module-level generator of `random` and the draws taken from it *)

\* runs of a writer in one behaviour
MaxRuns == 2
\* the states the generator of `random` can be in when the interpreter starts
\* (it is seeded from the entropy of the system): 0 .. MaxAmbient
MaxAmbient == 2

\* random.seed(x): the state is a function of x
SeedState(x) == x

\* random.randrange(n) in state s, which then moves on by one
randrange(s, n) == s % n

\* the state of `random` when inject_fault is called: ckpt_writer.py never
\* seeds it (its seed goes to np.random.default_rng), torch_ckpt_writer.py
\* calls random.seed(args.seed), gen_parts calls random.seed(seed*1000 + epoch)
random_state(prog, seed, epoch, ambient) ==
    IF prog = "npz" THEN ambient
    ELSE IF prog = "torch" THEN SeedState(seed)
    ELSE SeedState(seed * 1000 + epoch)

\* for _ in range(flips): i = randrange(n); bit = 1 << randrange(8); ba[i] ^= bit
RECURSIVE FlipDraws(_, _, _)
FlipDraws(b, flips, s) ==
    IF flips = 0 THEN b
    ELSE FlipDraws(FlipAt(b, randrange(s, Len(b)), randrange(s + 1, BitsPerByte)),
                   flips - 1, s + 2)

\* inject_fault of the writer prog, with `random` in state s
inject_fault_drawn(prog, raw, mode, s) ==
    LET n == Len(raw) IN
    IF mode = "none" \/ n = 0 THEN raw
    ELSE IF mode = "bitflip"
         THEN FlipDraws(raw, IF prog = "group" THEN 1 ELSE Max(1, n \div 200000), s)
    ELSE IF mode = "truncate"
         THEN Prefix(raw, IF prog = "group" THEN Max(1, n \div 2) ELSE Max(0, (n * 7) \div 10))
    ELSE IF mode = "zerorange"
         THEN ZeroRange(raw, randrange(s, n), Min(n - randrange(s, n), Max(1, n \div 100)))
    ELSE raw

\* the clean bytes the fault goes into: the container of the payload, or model.bin
FaultInput(prog, seed, epoch, kb_model) ==
    IF prog = "group" THEN gen_parts(seed, epoch, kb_model, 0)[1] ELSE CleanRaw(prog)

\* one run of the writer of cfg.prog, up to the faulted bytes
FaultRun ==
    /\ Len(row) < MaxRuns
    /\ \E ambient \in 0..MaxAmbient :
         LET s == random_state(cfg.prog, cfg.seed, cfg.epoch, ambient) IN
         row' = Append(row, [ambient |-> ambient,
                             bytes |-> inject_fault_drawn(cfg.prog,
                                           FaultInput(cfg.prog, cfg.seed, cfg.epoch,
                                                      cfg.kb_model),
                                           cfg.fault, s)])
    /\ UNCHANGED <<fs, cfg, w, io>>

InitFault ==
    /\ cfg \in [prog : {"npz", "torch", "group"}, fault : Faults, seed : {0, 1},
                epoch : {3}, kb_model : 1..(MaxKb + 1)]
    /\ fs = EmptyDir
    /\ w = WIdle
    /\ io = IoIdle
    /\ row = << >>

SpecFault == InitFault /\ [][FaultRun]_vars

----------------------------------------------------------------------------
(* Group validity (SpecScan) *)

Exists(d, path) == d[path] # NoFile

\* the parts a manifest file lists: those of the object it parses to
Listed(d) == IF Exists(d, ManPath) THEN ParseManifest(d[ManPath]).parts ELSE << >>

PartMatches(d, pt) ==
    /\ Exists(d, pt.path)
    /\ Len(d[pt.path]) = pt.bytes
    /\ sha256_bytes(d[pt.path]) = pt.sha256

\* COMMIT.json exists and parses, and its manifest_sha256 is the hash of the
\* bytes of MANIFEST.json on disk
CommitMatchesManifest(d) ==
    /\ Exists(d, ComPath)
    /\ ParseCommit(d[ComPath]).kind = "object"
    /\ Exists(d, ManPath)
    /\ ParseCommit(d[ComPath]).manifest_sha256 = sha256_bytes(d[ManPath])

AllListedMatch(d) == \A k \in 1..Len(Listed(d)) : PartMatches(d, Listed(d)[k])

Scanned == row # NoRow

C1_WitnessTorn ==
    /\ Scanned /\ row.group_ok = 0
    /\ CommitMatchesManifest(fs)
    /\ ParseManifest(fs[ManPath]).kind = "error"

\* the parts of the manifest that fail their check
BadParts(d) == { k \in 1..Len(Listed(d)) : ~PartMatches(d, Listed(d)[k]) }

\* C4: a group with exactly one part that is missing or whose hash differs from
\* its manifest entry, every other part correct and the commit matching the
\* manifest, is reported with group_ok == 0.
C4_NoPartialCredit ==
    (Scanned /\ CommitMatchesManifest(fs) /\ Cardinality(BadParts(fs)) = 1)
        => (row.group_ok = 0 /\ row.parts_ok = 0)

\* three listed parts, two of them intact and one with a wrong hash of the right size
C4_Witness ==
    /\ Scanned /\ CommitMatchesManifest(fs)
    /\ Len(Listed(fs)) = 3 /\ Cardinality(BadParts(fs)) = 1
    /\ \E k \in BadParts(fs) : PartVerdict(fs, Listed(fs)[k]) = "sha_mismatch"
    /\ row.group_ok = 0

----------------------------------------------------------------------------
(* The group protocol (Spec) *)

IsGroup == cfg.prog = "group"

\* the entry write_group records for part k, and the bytes it wrote for it
Recorded(k) == w.manifest[k]

\* part k is on disk as the manifest entry describes it
PartInPlace(k) == PartMatches(fs, Recorded(k))

\* the write of COMMIT.json has completed
CommitStepDone ==
    \/ w.pc = "done"
    \/ w.pc = "commit_io" /\ io.pc \in {"finally", "done"}

\* C2: files appear in the order parts, MANIFEST.json, COMMIT.json in both write
\* modes; in atomic mode COMMIT.json exists only if the complete manifest and all
\* parts are in place, and a scan reports group_ok == 1 only after the commit
\* step has completed.
C2_OrderedProtocol ==
    IsGroup =>
        /\ Exists(fs, ManPath) =>
               \A k \in 1..Len(PartNames) : Exists(fs, PartNames[k])
        /\ Exists(fs, ComPath) => Exists(fs, ManPath)
        /\ (cfg.write_mode = "atomic" /\ Exists(fs, ComPath)) =>
               /\ Len(w.manifest) = Len(PartNames)
               /\ fs[ManPath] = ManifestText(cfg.epoch, cfg.seed, w.manifest)
               /\ \A k \in 1..Len(PartNames) : PartInPlace(k)
        /\ (cfg.write_mode = "atomic" /\ Scanned /\ row.group_ok = 1) => CommitStepDone

\* an atomic writer stopped after the manifest is in place and before the commit
\* is renamed in, scanned as not valid
C2_Witness ==
    /\ IsGroup /\ cfg.write_mode = "atomic" /\ w.halt
    /\ w.pc = "commit_io" /\ io.pc = "replace"
    /\ Exists(fs, ManPath) /\ ~Exists(fs, ComPath)
    /\ Scanned /\ row.group_ok = 0

HasNote(r, code) == \E k \in 1..Len(r.note) : r.note[k][1] = code

\* C5: in unsafe mode each of the crash points before_manifest, manifest_partial
\* and before_commit ends the writer and leaves its own defect: no manifest; a
\* manifest that is present and does not parse; a complete manifest and no
\* commit.  The scan reports group_ok == 0 in all three cases.
C5_CrashPointMapping ==
    (IsGroup /\ cfg.write_mode = "unsafe"
         /\ cfg.crash_at \in {"before_manifest", "manifest_partial", "before_commit"}) =>
        /\ w.pc \notin {"commit_io", "done"}
        /\ (w.pc = "exited" /\ Scanned) =>
              /\ row.group_ok = 0
              /\ cfg.crash_at = "before_manifest" =>
                     row.has_manifest = 0 /\ w.code = 2
              /\ cfg.crash_at = "manifest_partial" =>
                     /\ row.has_manifest = 1 /\ HasNote(row, "manifest_error")
                     /\ w.code = 3
              /\ cfg.crash_at = "before_commit" =>
                     /\ row.has_manifest = 1 /\ ~HasNote(row, "manifest_error")
                     /\ fs[ManPath] = ManifestText(cfg.epoch, cfg.seed, w.manifest)
                     /\ row.has_commit = 0 /\ HasNote(row, "no_commit")
                     /\ w.code = 3

C5_Witness ==
    /\ IsGroup /\ cfg.write_mode = "unsafe" /\ cfg.crash_at = "manifest_partial"
    /\ w.pc = "exited" /\ Scanned
    /\ row.has_manifest = 1 /\ HasNote(row, "manifest_error") /\ row.group_ok = 0

\* C6, as stated: with write_mode=unsafe and crash point after_model the writer
\* stops after the model part, so a later part or the manifest is missing.
C6_AfterModelStops ==
    (IsGroup /\ cfg.write_mode = "unsafe" /\ cfg.crash_at = "after_model") =>
        \/ ~Exists(fs, "optim.bin")
        \/ ~Exists(fs, "rng.json")
        \/ ~Exists(fs, ManPath)

\* an unsafe writer with crash point after_model that returned from write_group:
\* model.bin holds its first half, every later file is in place
C6_Witness ==
    /\ IsGroup /\ cfg.write_mode = "unsafe" /\ cfg.crash_at = "after_model"
    /\ w.pc = "done" /\ w.code = 0
    /\ Len(fs["model.bin"]) < Len(Parts[1])
    /\ Exists(fs, "optim.bin") /\ Exists(fs, "rng.json")
    /\ Exists(fs, ManPath) /\ Exists(fs, ComPath)

\* a part whose written bytes differ from the clean bytes of gen_parts
Faulted(k) == Exists(fs, PartNames[k]) /\ fs[PartNames[k]] # Parts[k]

\* C8, as stated for the group writer: in atomic mode with a fault the manifest
\* records the clean size and hash of each part, so the scan reports
\* group_ok == 0 with a size_mismatch or sha_mismatch for the faulted parts.
C8_CleanHashesRecorded ==
    (IsGroup /\ cfg.write_mode = "atomic" /\ cfg.fault # "none" /\ w.pc = "done") =>
        /\ \A k \in 1..Len(PartNames) :
               /\ Recorded(k).bytes = Len(Parts[k])
               /\ Recorded(k).sha256 = sha256_bytes(Parts[k])
        /\ (Scanned /\ \E k \in 1..Len(PartNames) : Faulted(k)) =>
               /\ row.group_ok = 0
               /\ HasNote(row, "size_mismatch") \/ HasNote(row, "sha_mismatch")

\* an atomic group whose model part was bit-flipped, recorded as written and
\* scanned as valid
C8_Witness ==
    /\ IsGroup /\ cfg.write_mode = "atomic" /\ cfg.fault = "bitflip" /\ w.pc = "done"
    /\ Faulted(1) /\ Recorded(1).sha256 = sha256_bytes(fs["model.bin"])
    /\ Scanned /\ row.group_ok = 1

----------------------------------------------------------------------------
(* Atomic visibility (SpecAtomic) *)

\* C3: during atomic_write_bytes(path, new) over old content or no file, at
\* every step and after a stop at any step, the path holds exactly the old
\* content (or no file) or exactly the new content, and so does every read of
\* it; no other file than the temp file changes.
C3_OldOrNew ==
    /\ fs[cfg.path] \in {cfg.old, cfg.new}
    /\ row # NoRow => row.got \in {cfg.old, cfg.new}
    /\ (io.pc \in {"mkstemp", "write", "flush", "replace"}) => fs[cfg.path] = cfg.old
    /\ (io.pc \in {"finally", "done"}) => fs[cfg.path] = cfg.new
    /\ \A q \in Paths \ {cfg.path, TmpPath} : fs[q] = NoFile

\* the writer stopped while the temp file holds a proper, non-empty prefix of
\* the new content, and a reader then read the old content
C3_Witness ==
    /\ w.halt /\ io.pc = "flush"
    /\ fs[TmpPath] # << >> /\ fs[TmpPath] # cfg.new
    /\ cfg.old \notin {NoFile, cfg.new, fs[TmpPath]}
    /\ row # NoRow /\ row.got = cfg.old

----------------------------------------------------------------------------
(* The single-checkpoint writers and the round trip (Spec) *)

IsSingle == cfg.prog \in {"npz", "torch"}

\* the last scan produced a verdict row for the checkpoint file
HasVerdict == IsSingle /\ row # NoRow /\ row # EmptyReport /\ "corrupted" \in DOMAIN row

InNote(r, code) == \E k \in 1..Len(r.note) : r.note[k] = code

\* C7, as stated: with fault=none and crash_epoch=e the checkpoint of epoch e is
\* reported corrupted == false, in atomic mode and in unsafe mode.
C7_AsStated ==
    (HasVerdict /\ cfg.fault = "none" /\ CrashEpoch /\ w.pc = "exited")
        => row.corrupted = 0

\* C7, amended: with fault=none and crash_epoch=e the writer exits with code 1
\* after the write of epoch e; in atomic mode the checkpoint file holds all of
\* the container bytes and is reported corrupted == false; in unsafe mode it
\* holds only their first half and is reported corrupted == true with load_error.
C7_CrashAfterWrite ==
    (IsSingle /\ cfg.fault = "none" /\ CrashEpoch /\ w.pc = "exited") =>
        /\ w.code = 1
        /\ cfg.write_mode = "atomic" =>
               /\ fs[CkptPath(cfg.prog)] = CleanRaw(cfg.prog)
               /\ HasVerdict => row.corrupted = 0 /\ row.note = << >>
        /\ cfg.write_mode = "unsafe" =>
               /\ fs[CkptPath(cfg.prog)] =
                      Prefix(CleanRaw(cfg.prog), Len(CleanRaw(cfg.prog)) \div 2)
               /\ HasVerdict => row.corrupted = 1 /\ InNote(row, "load_error")

\* an atomic writer that exited on its crash epoch, scanned as not corrupted
C7_Witness ==
    /\ HasVerdict /\ cfg.fault = "none" /\ CrashEpoch /\ w.pc = "exited"
    /\ cfg.write_mode = "atomic" /\ row.corrupted = 0 /\ row.digest_match = 1

\* the reason codes that match a fault in the checkpoint bytes
DefectNoted(r) ==
    \/ InNote(r, "load_error")
    \/ InNote(r, "digest_mismatch")
    \/ InNote(r, "file_sha_mismatch")

\* C9, as stated: for each fault mode and every draw of the injector, a
\* checkpoint written in atomic mode with that fault is reported corrupted ==
\* true with a reason code that matches the defect.
C9_FaultsDetected ==
    (HasVerdict /\ cfg.write_mode = "atomic" /\ cfg.fault # "none"
         /\ w.pc \in {"done", "exited"})
        => (row.corrupted = 1 /\ DefectNoted(row))

\* an NPZ checkpoint with one flipped bit in a header byte, reported not corrupted
C9_Witness ==
    /\ HasVerdict /\ cfg.prog = "npz" /\ cfg.write_mode = "atomic"
    /\ cfg.fault = "bitflip" /\ w.pc = "done"
    /\ fs[CkptPath("npz")] # CleanRaw("npz")
    /\ row.corrupted = 0

\* C10: a checkpoint written in atomic mode with fault=none and no crash scans
\* as valid: corrupted == false from the single-file scanners, group_ok == 1
\* from the group scanner.
C10_CleanRoundTrip ==
    (cfg.write_mode = "atomic" /\ cfg.fault = "none" /\ w.pc = "done" /\ row # NoRow) =>
        IF cfg.prog = "group"
        THEN cfg.crash_at = "none" =>
                 row.group_ok = 1 /\ row.parts_ok = 1 /\ row.note = << >>
        ELSE ~CrashEpoch =>
                 /\ HasVerdict
                 /\ row.corrupted = 0 /\ row.load_ok = 1 /\ row.shape_ok = 1
                 /\ row.note = << >>
                 /\ row.expected_digest_present = 1 /\ row.digest_match = 1
                 /\ cfg.prog = "torch" =>
                        row.expected_file_sha_present = 1 /\ row.file_sha_match = 1

\* a finished NPZ writer whose checkpoint scanned as not corrupted
C10_Witness ==
    /\ cfg.prog = "npz" /\ cfg.write_mode = "atomic" /\ cfg.fault = "none"
    /\ ~CrashEpoch /\ w.pc = "done"
    /\ HasVerdict /\ row.corrupted = 0 /\ row.digest_match = 1

----------------------------------------------------------------------------
(* Rollback selection and alias update (SpecRollback) *)

\* a row of the report is a valid verdict
ValidRow(r) == IF cfg.prog = "rollback" THEN r.corrupted = 0 ELSE r.group_ok = 1

ReportRows == IF row = NoRow THEN << >> ELSE row

ValidEpochs == { ReportRows[i].epoch : i \in { j \in 1..Len(ReportRows) : ValidRow(ReportRows[j]) } }

MaxOf(S) == CHOOSE m \in S : \A x \in S : x <= m

\* the rollback process has made its selection
Decided == w.pc # "read_csv"

\* C11: when the report holds at least one valid verdict, rollback selects the
\* artifact of the largest valid epoch, in whatever order the rows come, and
\* what it selects is never the artifact of an epoch without a valid verdict
\* (rollback.py then exits when that file is not on disk).
C11_LatestValid ==
    (Decided /\ ValidEpochs # {}) =>
        LET best == ArtifactPath(MaxOf(ValidEpochs)) IN
        /\ cfg.prog = "group_rollback" => w.best = best
        /\ cfg.prog = "rollback" =>
               IF fs[best] = NoFile THEN w.pc = "exited" /\ w.best = NoTarget
               ELSE w.best = best
        /\ w.best # NoTarget => w.best[2] \in ValidEpochs

\* a report whose rows are not in epoch order, with a valid epoch 1 after a
\* valid epoch 2 and an invalid epoch 3: epoch 2 is selected
C11_Witness ==
    /\ Decided /\ Len(ReportRows) = 3
    /\ ReportRows[1].epoch = 2 /\ ValidRow(ReportRows[1])
    /\ ReportRows[2].epoch = 1 /\ ValidRow(ReportRows[2])
    /\ ReportRows[3].epoch = 3 /\ ~ValidRow(ReportRows[3])
    /\ w.best = ArtifactPath(2)

\* C12: when no verdict of the report is valid, rollback ends with exit code 1
\* and without an alias update: the alias is what it was, none is created.
C12_NoValidNoUpdate ==
    ValidEpochs = {} =>
        /\ fs[LinkPath] = w.link0
        /\ fs[TmpLinkPath] = NoFile
        /\ w.pc \in {"read_csv", "exited"}
        /\ w.pc = "exited" => w.code = 1

\* a report of invalid verdicts only, an alias in place, rollback ended
C12_Witness ==
    /\ ValidEpochs = {} /\ Len(ReportRows) = 2
    /\ w.pc = "exited" /\ w.code = 1
    /\ w.link0 = LinkTo(1) /\ fs[LinkPath] = LinkTo(1)

\* C13, as stated: at every step of an update of an existing alias an observer
\* resolving the alias finds the old target or the new target, never a missing
\* alias.
C13_AliasNeverMissing ==
    (w.link0 # NoFile) =>
        \/ fs[LinkPath] = w.link0
        \/ w.best # NoTarget /\ fs[LinkPath] = LinkOf(w.best)

\* rollback.py between its unlink and its symlink: the alias is gone
C13_Witness ==
    /\ cfg.prog = "rollback" /\ w.pc = "symlink"
    /\ w.link0 # NoFile /\ fs[LinkPath] = NoFile

----------------------------------------------------------------------------
(* The alias over writes, scans and rollbacks (SpecLife) *)

\* the epoch whose artifact the alias resolves to
AliasEpoch == fs[LinkPath][2]

\* C14, as stated: after any sequence of writes, scans and rollback
\* invocations, an alias that exists resolves to an artifact that is on disk
\* and has a valid verdict in the most recent full scan.
C14_AliasPassedLastScan ==
    (w.pc \in {"done", "exited"} /\ fs[LinkPath] # NoFile) =>
        /\ fs[ArtifactPath(AliasEpoch)] # NoFile
        /\ AliasEpoch \in ValidEpochs

\* the alias points at an artifact that was rewritten, failed the most recent
\* scan, and was left in place by the rollback that followed
C14_Witness ==
    /\ w.pc = "exited" /\ w.code = 1 /\ fs[LinkPath] # NoFile
    /\ fs[ArtifactPath(AliasEpoch)] = BadArtifact
    /\ AliasEpoch \notin ValidEpochs
    /\ ValidEpochs = {} /\ Len(ReportRows) > 0

----------------------------------------------------------------------------
(* Rollback and checkpoint data (SpecWatch) *)

\* C15, as stated: no rollback operation changes the content of a checkpoint
\* file or of a sidecar; the alias is all it writes.
C15_RollbackReadOnly ==
    [][ /\ fs'[WatchedPath] = fs[WatchedPath]
        /\ fs'[WatchedMetaPath] = fs[WatchedMetaPath] ]_vars

\* the rollback of the verify or watch mode has put the last-good copy in the
\* place of a checkpoint file that failed verification
C15_Witness ==
    /\ w.rolled /\ ~w.ok /\ w.pc = "append_event"
    /\ fs[WatchedPath] = fs[LastGoodPath]
    /\ fs[MtimePath(WatchedPath)] = fs[MtimePath(LastGoodPath)]
    /\ verify_once(fs) = [raised |-> FALSE, ok |-> FALSE]

----------------------------------------------------------------------------
(* Scans and the scanned tree (Spec) *)

\* a step of a scanner: the report is replaced and no writer step is taken
ScanStep == row' # row \/ (w' = w /\ io' = io)

\* C16: a scan of the group, NPZ or Torch scanner leaves every part, manifest,
\* commit, checkpoint file, sidecar and temp file as it was, and creates or
\* removes none of them; the report is all it writes.
C16_ScanReadOnly == [][ScanStep => fs' = fs]_vars

\* a complete group has been scanned and is still on disk as it was written
C16_Witness ==
    /\ cfg.prog = "group" /\ row # NoRow /\ row.group_ok = 1
    /\ fs[ComPath] # NoFile /\ fs[ManPath] # NoFile
    /\ \A k \in 1..Len(PartNames) : fs[PartNames[k]] # NoFile

----------------------------------------------------------------------------
(* Single-file verdicts over any directory (SpecScanCkpt) *)

\* the checkpoint file and its sidecar as the scanner of cfg.prog reads them
Loaded == load_bytes(fs[CkptPath(cfg.prog)], KEY_ORDER(cfg.prog))
Sidecar == IF fs[MetaPath(cfg.prog)] = NoFile
           THEN [kind |-> "none", expected_digest |-> << >>, expected_file_sha256 |-> << >>]
           ELSE ParseMeta(fs[MetaPath(cfg.prog)])
LacksKey == \E k \in Keys(cfg.prog) : k \notin DOMAIN Loaded.arrays

\* C17, as stated: whatever the checkpoint file and the sidecar hold, the scan
\* ends with a verdict row for the checkpoint file and not with an exception.
C17_ScanCompletes ==
    (row # NoRow /\ fs[CkptPath(cfg.prog)] # NoFile) =>
        /\ "raised" \notin DOMAIN row
        /\ "corrupted" \in DOMAIN row

\* the NPZ scanner has ended with KeyError on an archive that loads, lacks a
\* key of KEY_ORDER and has a sidecar that declares an expected digest
C17_Witness ==
    /\ cfg.prog = "npz" /\ row = [raised |-> "KeyError"]
    /\ Loaded.ok /\ LacksKey
    /\ Sidecar.kind = "object" /\ Sidecar.expected_digest # << >>

----------------------------------------------------------------------------
(* The half-written checkpoint file (Spec) *)

\* C18: when an unsafe writer has written only the first half of the (clean or
\* faulted) container bytes of its crash epoch, a scan of the file ends with a
\* verdict that is corrupted, with load_ok = 0 and the reason load_error.
C18_HalfWrittenChecked ==
    (IsSingle /\ cfg.write_mode = "unsafe" /\ CrashEpoch /\ w.pc = "exited"
        /\ row # NoRow) =>
        /\ Len(w.raw) > 0
        /\ fs[CkptPath(cfg.prog)] = Prefix(w.raw, Len(w.raw) \div 2)
        /\ HasVerdict
        /\ row.corrupted = 1 /\ row.load_ok = 0 /\ InNote(row, "load_error")

\* the first half of a clean archive, more than one whole member of it, has
\* been scanned
C18_Witness ==
    /\ IsSingle /\ cfg.write_mode = "unsafe" /\ CrashEpoch /\ w.pc = "exited"
    /\ cfg.fault = "none" /\ Len(fs[CkptPath(cfg.prog)]) > 5
    /\ fs[MetaPath(cfg.prog)] # NoFile
    /\ HasVerdict /\ row.corrupted = 1 /\ row.load_ok = 0

\* what the sidecar declares, held against the file on disk
DigestDiffers ==
    /\ Sidecar.expected_digest # << >> /\ Loaded.ok
    /\ content_digest(cfg.prog, Loaded.arrays, KEY_ORDER(cfg.prog)) # Sidecar.expected_digest
FileHashDiffers ==
    /\ Sidecar.expected_file_sha256 # << >>
    /\ sha256_bytes(fs[CkptPath(cfg.prog)]) # Sidecar.expected_file_sha256

\* C19, as stated: a single-file verdict is corrupted exactly when the load
\* failed, a NaN or an Inf was counted, the schema check failed, the declared
\* digest differs from the recomputed one or the declared file hash differs
\* from the hash of the file, in the NPZ scanner as in the Torch scanner.
C19_CorruptedIff ==
    HasVerdict =>
        (row.corrupted = 1 <=>
            \/ row.load_ok = 0
            \/ row.nan_total > 0
            \/ row.inf_total > 0
            \/ row.shape_ok = 0
            \/ DigestDiffers
            \/ FileHashDiffers)

\* the NPZ scanner has reported a file as not corrupted whose sidecar declares
\* a file hash other than the hash of the file
C19_Witness ==
    /\ cfg.prog = "npz" /\ HasVerdict /\ row.corrupted = 0
    /\ Sidecar.kind = "object" /\ FileHashDiffers
    /\ fs[CkptPath("npz")] = CleanRaw("npz")

\* the grounds that need no expectation: load failure, NaN, Inf, schema
HasNaN == Loaded.ok /\ \E k \in DOMAIN Loaded.arrays : Loaded.arrays[k].elem = NaNByte
HasInf == Loaded.ok /\ \E k \in DOMAIN Loaded.arrays : Loaded.arrays[k].elem = InfByte
OwnGrounds == ~Loaded.ok \/ HasNaN \/ HasInf \/ row.shape_ok = 0

\* C20: an expectation the sidecar does not set is no ground of corruption.
\* With no sidecar, or one that sets neither expectation, the scan ends with a
\* verdict that is corrupted exactly on load failure, NaN, Inf or schema
\* mismatch; an unset digest (file hash) leaves only those and the other
\* expectation as grounds; and a sidecar without its checkpoint file leaves the
\* scan with an empty report and no failure.
C20_UnsetIsNoFailure ==
    /\ (row # NoRow /\ fs[CkptPath(cfg.prog)] # NoFile /\ Sidecar.expected_digest = << >>) =>
           /\ HasVerdict
           /\ row.corrupted = 1 => (OwnGrounds \/ FileHashDiffers)
           /\ Sidecar.expected_file_sha256 = << >> => (row.corrupted = 1 <=> OwnGrounds)
    /\ (HasVerdict /\ Sidecar.expected_file_sha256 = << >>) =>
           (row.corrupted = 1 => (OwnGrounds \/ DigestDiffers))
    /\ (row # NoRow /\ fs[CkptPath(cfg.prog)] = NoFile) =>
           ("raised" \notin DOMAIN row /\ row = [rows |-> 0])

\* a clean checkpoint file without sidecar has been scanned as not corrupted
C20_Witness ==
    /\ HasVerdict /\ fs[MetaPath(cfg.prog)] = NoFile
    /\ fs[CkptPath(cfg.prog)] = CleanRaw(cfg.prog)
    /\ row.corrupted = 0 /\ row.expected_digest_present = 0 /\ row.digest_match = 0

----------------------------------------------------------------------------
(* The schema check (SpecScanCkpt) *)

\* the loaded arrays differ from the declared expectation in the key set, in
\* the shape of a key or in the dtype of a key
SchemaDiffers ==
    \/ DOMAIN Loaded.arrays # Keys(cfg.prog)
    \/ \E k \in DOMAIN Loaded.arrays :
           Loaded.arrays[k].shape # 1 \/ Loaded.arrays[k].dtype # 1

\* C21, as stated: whenever the file loads and its key set, a shape or a dtype
\* differs from the expectation, the verdict has shape_ok = 0 with the reason
\* shape_mismatch.
C21_SchemaMismatchReported ==
    (HasVerdict /\ Loaded.ok /\ SchemaDiffers) =>
        (row.shape_ok = 0 /\ InNote(row, "shape_mismatch"))

\* a file that holds the four expected arrays and one more key has been
\* scanned with shape_ok = 1 and is reported as not corrupted
C21_Witness ==
    /\ HasVerdict /\ Loaded.ok
    /\ "extra" \in DOMAIN Loaded.arrays
    /\ \A k \in Keys(cfg.prog) : k \in DOMAIN Loaded.arrays
    /\ row.shape_ok = 1 /\ row.corrupted = 0 /\ row.note = << >>

----------------------------------------------------------------------------
(* The content digest (SpecDigest) *)

KeySet(key_order) == { key_order[i] : i \in 1..Len(key_order) }
Raised(call) == call.digest = << T.KeyError >>

\* C22, as stated: a call whose key_order does not cover the key set of the
\* payload exactly (a key of key_order that the payload lacks, or a key of the
\* payload that key_order lacks) is rejected with an error.
C22_ExactCover ==
    \A i \in 1..Len(row) :
        KeySet(row[i].key_order) # DOMAIN cfg.payload => Raised(row[i])

\* a call has returned a digest for a payload that holds a key its key_order lacks
C22_Witness ==
    \E i \in 1..Len(row) :
        /\ KeySet(row[i].key_order) # {}
        /\ KeySet(row[i].key_order) \subseteq DOMAIN cfg.payload
        /\ KeySet(row[i].key_order) # DOMAIN cfg.payload
        /\ ~Raised(row[i])
        /\ row[i].digest = content_digest(row[i].prog,
               [k \in KeySet(row[i].key_order) |-> cfg.payload[k]], row[i].key_order)

\* two calls of one pipeline with the same keys in two different orders
Reordered(a, b) ==
    /\ a.prog = b.prog
    /\ KeySet(a.key_order) = KeySet(b.key_order)
    /\ a.key_order # b.key_order
    /\ ~Raised(a) /\ ~Raised(b)

\* C23: two calls of content_digest on one payload with the same keys in two
\* different key orders return two different digests.
C23_OrderMatters ==
    \A i, j \in 1..Len(row) : Reordered(row[i], row[j]) => row[i].digest # row[j].digest

\* two such calls have been made, on three keys of which the first is the
\* same in both orders
C23_Witness ==
    /\ Len(row) = 2 /\ Reordered(row[1], row[2])
    /\ Len(row[1].key_order) = 3
    /\ row[1].key_order[1] = row[2].key_order[1]
    /\ row[1].digest # row[2].digest

\* two calls on the same keys in the same order, one of each pipeline
SameLogicalCall(a, b) ==
    /\ a.prog = "npz" /\ b.prog = "torch"
    /\ a.key_order = b.key_order
    /\ ~Raised(a) /\ ~Raised(b)

\* C24, as stated: the NPZ pipeline and the Torch pipeline give the same digest
\* to the same payload under the same key order.
C24_FormatIndependent ==
    \A i, j \in 1..Len(row) :
        SameLogicalCall(row[i], row[j]) => row[i].digest = row[j].digest

\* the two pipelines have returned two different digests for one payload of
\* one key, and so for one array
C24_Witness ==
    /\ Len(row) = 2 /\ SameLogicalCall(row[1], row[2])
    /\ Len(row[1].key_order) = 1
    /\ row[1].digest # row[2].digest
    /\ array_digest("npz", cfg.payload[row[1].key_order[1]])
           # array_digest("torch", cfg.payload[row[1].key_order[1]])

----------------------------------------------------------------------------
(* The digest of the writer and the digest of the scanner (Spec) *)

----------------------------------------------------------------------------
(* Fault injection (SpecFault) *)

\* C26, as stated: two runs of a writer with the same seed, the same fault mode
\* and the same clean bytes produce the same faulted bytes.
C26_SameSeedSameFault ==
    \A i, j \in 1..Len(row) : row[i].bytes = row[j].bytes

\* two runs of ckpt_writer.py with one seed have flipped two different bits
C26_Witness ==
    /\ cfg.prog = "npz" /\ cfg.fault = "bitflip" /\ Len(row) = 2
    /\ row[1].bytes # row[2].bytes
    /\ \A i \in 1..2 : row[i].bytes \in inject_fault(CleanRaw("npz"), "bitflip")

\* the clean bytes of the runs of this behaviour
CleanInput == FaultInput(cfg.prog, cfg.seed, cfg.epoch, cfg.kb_model)

\* C27, as stated: in every writer, truncate returns the first floor(0.7 * n)
\* bytes of a nonempty input of n bytes.
C27_TruncateKeeps70 ==
    \A i \in 1..Len(row) :
        (cfg.fault = "truncate" /\ Len(CleanInput) > 0) =>
            row[i].bytes = Prefix(CleanInput, (7 * Len(CleanInput)) \div 10)

\* the group writer has cut a part of three bytes down to one byte
C27_Witness ==
    /\ cfg.prog = "group" /\ cfg.fault = "truncate" /\ Len(row) > 0
    /\ Len(CleanInput) = 3
    /\ row[1].bytes = Prefix(CleanInput, 1)
    /\ row[1].bytes \in inject_fault_gc(CleanInput, "truncate")

----------------------------------------------------------------------------
(* Crash points and the write mode (Spec) *)

\* C28: write_group in atomic mode, whatever crash_at is, never exits early and
\* never writes a part of a file: every part, the manifest and the commit are
\* absent or whole; when it has returned all three phases are on disk, and with
\* fault=none the group then scans with group_ok = 1.
C28_AtomicIgnoresCrashPoints ==
    (IsGroup /\ cfg.write_mode = "atomic") =>
        /\ w.pc # "exited" /\ w.code = 0
        /\ ~io.partial
        /\ cfg.fault = "none" =>
               \A k \in 1..Len(PartNames) : fs[PartNames[k]] \in {NoFile, Parts[k]}
        /\ fs[ManPath] \in {NoFile, w.man_bytes}
        /\ fs[ComPath] \in {NoFile, CommitText(cfg.epoch, cfg.seed, sha256_bytes(w.man_bytes), 1)}
        /\ w.pc = "done" =>
               /\ \A k \in 1..Len(PartNames) : fs[PartNames[k]] # NoFile
               /\ fs[ManPath] # NoFile /\ fs[ComPath] # NoFile
               /\ (cfg.fault = "none" /\ Scanned) =>
                      (row.group_ok = 1 /\ row.note = << >>)

\* an atomic run with a crash point set has returned and scans as valid
C28_Witness ==
    /\ IsGroup /\ cfg.write_mode = "atomic" /\ cfg.crash_at = "manifest_partial"
    /\ cfg.fault = "none" /\ cfg.kb_model > 1
    /\ w.pc = "done" /\ Scanned /\ row.group_ok = 1
    /\ fs[ManPath] = w.man_bytes

----------------------------------------------------------------------------
(* Failures of atomic_write_bytes (SpecAtomicFail) *)

\* C29: when atomic_write_bytes has failed at its write, flush / fsync or
\* rename step, the temp file is gone, the error has reached the caller (the
\* process has ended with code 1) and the path holds its previous content or
\* is still absent; no read ever sees anything but the old or the new content.
C29_FailureLeavesOld ==
    /\ io.pc = "raised" =>
           /\ fs[TmpPath] = NoFile
           /\ w.pc = "exited" /\ w.code = 1
           /\ fs[cfg.path] = cfg.old
           /\ \A q \in Paths \ {cfg.path} : fs[q] = NoFile
    /\ io.pc = "finally_err" => fs[cfg.path] = cfg.old
    /\ row # NoRow => row.got \in {cfg.old, cfg.new}

\* the write into the temp file failed half way over an existing file, the
\* helper has raised, and a reader has read the old content
C29_Witness ==
    /\ io.pc = "raised" /\ w.pc = "exited"
    /\ cfg.old \notin {NoFile, cfg.new} /\ Len(cfg.new) > 1
    /\ fs[cfg.path] = cfg.old /\ fs[TmpPath] = NoFile
    /\ row # NoRow /\ row.got = cfg.old

----------------------------------------------------------------------------
(* Failures while write_group persists a file (SpecGroupFail) *)

\* the write of a part, of the manifest or of the commit has failed
WriteFailed == io.pc = "raised"

\* what is on disk after a failed write: no commit unless it was the commit
\* that failed, and no manifest when it was a part that failed
NothingLater ==
    /\ io.path # ComPath => fs[ComPath] = NoFile
    /\ io.path \notin {ManPath, ComPath} => fs[ManPath] = NoFile

\* C30: a failed write of a part, the manifest or the commit ends write_group:
\* the helper runs its cleanup and raises, the process ends with code 1, and
\* from then on no step of the writer runs, so the write is not tried again
\* and nothing later in the protocol, the commit above all, is written.
C30_FailureIsFatal ==
    [][ /\ (io.pc = "finally_err" /\ io' # io) =>
               (io'.pc = "raised" /\ io'.path = io.path)
        /\ WriteFailed => (fs' = fs /\ io' = io /\ w' = w)
        /\ WriteFailed' => (w'.pc = "exited" /\ w'.code = 1 /\ NothingLater') ]_vars

\* the write of the manifest failed after all parts were written, and the
\* scan of what is left reports the group as not valid
C30_Witness ==
    /\ WriteFailed /\ io.path = ManPath /\ w.pc = "exited"
    /\ \A k \in 1..Len(PartNames) : fs[PartNames[k]] # NoFile
    /\ fs[ComPath] = NoFile
    /\ Scanned /\ row.group_ok = 0

----------------------------------------------------------------------------
\* C31: every simulated crash exit of a writer (single-checkpoint or group) is
\* immediately preceded by a simulated_crash line on standard output: the step
\* that ends the process through os._exit leaves simulated_crash as the last
\* line printed.
CrashExit == w.pc # "exited" /\ w'.pc = "exited" /\ io'.pc # "raised"

C31_CrashEventPrecedesExit ==
    [][ CrashExit =>
            (w'.out # << >> /\ w'.out[Len(w'.out)] = "simulated_crash") ]_vars

\* a group writer that has left through a crash point, with nothing printed
C31_Witness ==
    /\ cfg.prog = "group" /\ w.pc = "exited" /\ w.code \in {2, 3}
    /\ w.out = << >>

----------------------------------------------------------------------------
\* C32: the watch loop supports a cooperative stop: once a stop is requested
\* the loop ends after at most the current iteration and its sleep, so a
\* requested stop always leads to the end of the process.
C32_StopEndsLoop == w.stop ~> (w.pc \in {"done", "exited"})

\* a stop was requested and the loop, having seen the file unchanged, is about
\* to sleep and go round again
C32_Witness ==
    /\ cfg.prog = "watch" /\ w.stop /\ ~w.halt
    /\ w.pc = "sleep" /\ w.seen = fs[MtimePath(WatchedPath)][1]

----------------------------------------------------------------------------
\* C33: in watch and single-verify mode a target seen mid-write is a checked
\* failure: when the metadata file is missing, partially written or
\* unparseable, the verification step returns not-ok and the process goes on
\* (to the rollback and the next iteration); it does not end with an unhandled
\* failure.
MetaNotWhole == read_meta(fs).kind # "object"

C33_MidWriteIsChecked ==
    [][ (w.pc = "verify_once" /\ w'.pc # "verify_once" /\ MetaNotWhole) =>
            (w'.pc = "rollback" /\ ~w'.ok) ]_vars

\* the watch loop has ended on a metadata file of which only a prefix is on disk
C33_Witness ==
    /\ cfg.prog = "watch" /\ w.pc = "exited" /\ w.code = 1
    /\ \E b \in WatchBlobs : fs[WatchedMetaPath] = Prefix(write_meta(b), 2)
    /\ row = << >>

----------------------------------------------------------------------------
\* C34: every verdict that reports a failure carries a reason code: a
\* single-file row with corrupted = 1 has a non-empty note, and a group row
\* with group_ok = 0 has a non-empty note.
C34_FailureHasReason ==
    /\ ("corrupted" \in DOMAIN row /\ row.corrupted = 1) => row.note # << >>
    /\ ("group_ok" \in DOMAIN row /\ row.group_ok = 0) => row.note # << >>

\* a checkpoint that loads, has the expected schema and no sidecar, and holds
\* a NaN: reported corrupted with an empty note
C34_Witness ==
    /\ "corrupted" \in DOMAIN row /\ row.corrupted = 1 /\ row.note = << >>
    /\ row.load_ok = 1 /\ row.shape_ok = 1 /\ row.nan_total > 0
    /\ fs[MetaPath(cfg.prog)] = NoFile

\* a group whose commit exists and whose manifest is missing: reported not ok
\* with an empty note
C34_GroupCase ==
    /\ "group_ok" \in DOMAIN row /\ row.group_ok = 0 /\ row.note = << >>
    /\ fs[ComPath] # NoFile /\ fs[ManPath] = NoFile

----------------------------------------------------------------------------
(* End to end: one run of a single-checkpoint writer over all its epochs into a
   fresh directory, then integrity_guard(_pt).py over the directory, then
   rollback.py over the report (as tools/run_many.py chains the commands) *)

\* the sidecar of the checkpoint of epoch e
SidecarPath(e) == << "sidecar", e >>
RunPaths == { ArtifactPath(e) : e \in Epochs } \cup { SidecarPath(e) : e \in Epochs }
                \cup { LinkPath }

\* ckpt_epochs(epochs, every) of run_many.py: range(every, epochs + 1, every)
ckpt_epochs(epochs, every) == { e \in 1..epochs : e % every = 0 }

\* the arrays at epoch e: step_update() changes them every epoch
PayloadAt(prog, e) == [k \in Keys(prog) |-> [dtype |-> 1, shape |-> 1, elem |-> e % 2]]

RunIdle == [pc |-> "idle", halt |-> FALSE, epoch |-> 1, raw |-> << >>, code |-> 0,
            out |-> << >>]

\* for epoch in range(1, args.epochs + 1): ... if epoch % every != 0: continue;
\* after the loop the done event is printed
RunLoop ==
    /\ Running /\ cfg.prog \in {"npz", "torch"} /\ w.pc = "loop"
    /\ IF w.epoch > cfg.epochs
       THEN w' = [w EXCEPT !.pc = "done", !.out = Append(@, "done")]
       ELSE IF w.epoch % cfg.every # 0
       THEN w' = [w EXCEPT !.epoch = @ + 1]
       ELSE w' = [w EXCEPT !.pc = "ckpt"]
    /\ UNCHANGED <<fs, cfg, io, row>>

\* the digest is taken, the bytes are serialized and the fault injected, and
\* atomic_write_text puts the sidecar in place
RunMeta ==
    /\ Running /\ cfg.prog \in {"npz", "torch"} /\ w.pc = "ckpt"
    /\ LET payload  == PayloadAt(cfg.prog, w.epoch)
           clean    == save_bytes(payload, KEY_ORDER(cfg.prog))
           expected_digest == content_digest(cfg.prog, payload, KEY_ORDER(cfg.prog))
       IN  /\ \E raw \in inject_fault(clean, cfg.fault) :
                  w' = [w EXCEPT !.pc = "write", !.raw = raw]
           /\ fs' = [fs EXCEPT ![SidecarPath(w.epoch)] =
                         MetaText(cfg.prog, w.epoch, cfg.seed, expected_digest,
                                  sha256_bytes(clean))]
    /\ UNCHANGED <<cfg, io, row>>

\* atomic_write_bytes(ckpt_path, raw), or unsafe_write_bytes(ckpt_path, raw,
\* partial) with partial = (crash_epoch > 0 and epoch == crash_epoch)
RunCkpt ==
    /\ Running /\ cfg.prog \in {"npz", "torch"} /\ w.pc = "write"
    /\ LET partial == cfg.crash_epoch > 0 /\ w.epoch = cfg.crash_epoch IN
       fs' = [fs EXCEPT ![ArtifactPath(w.epoch)] =
                 IF cfg.write_mode = "atomic" THEN w.raw
                 ELSE unsafe_bytes(w.raw, partial)]
    /\ w' = [w EXCEPT !.pc = "saved"]
    /\ UNCHANGED <<cfg, io, row>>

\* RunSaved of a writer that goes on after the crash epoch
RunSaved_NoExit ==
    /\ Running /\ cfg.prog \in {"npz", "torch"} /\ w.pc = "saved"
    /\ w' = [w EXCEPT !.pc = "loop", !.epoch = @ + 1,
                      !.out = Append(@, "checkpoint_saved")]
    /\ UNCHANGED <<fs, cfg, io, row>>

\* checkpoint_saved is printed; on the crash epoch simulated_crash is printed
\* and os._exit(1) ends the process, else the loop goes on
RunSaved ==
    /\ Running /\ cfg.prog \in {"npz", "torch"} /\ w.pc = "saved"
    /\ IF cfg.crash_epoch > 0 /\ w.epoch = cfg.crash_epoch
       THEN w' = [w EXCEPT !.pc = "exited", !.code = 1,
                           !.out = @ \o << "checkpoint_saved", "simulated_crash" >>]
       ELSE w' = [w EXCEPT !.pc = "loop", !.epoch = @ + 1,
                           !.out = Append(@, "checkpoint_saved")]
    /\ UNCHANGED <<fs, cfg, io, row>>

\* the directory of one checkpoint file and its sidecar, as scan_ckpt reads it
FileView(prog, d, e) ==
    [EmptyDir EXCEPT ![CkptPath(prog)] = d[ArtifactPath(e)],
                     ![MetaPath(prog)] = d[SidecarPath(e)]]

\* the rows of scan_dir over the checkpoint files on disk, in sorted order
RECURSIVE RunRows(_, _, _)
RunRows(prog, d, e) ==
    IF e > MaxEpoch THEN << >>
    ELSE (IF d[ArtifactPath(e)] = NoFile THEN << >>
          ELSE << CkptRow(e, scan_ckpt(prog, FileView(prog, d, e)).corrupted) >>)
         \o RunRows(prog, d, e + 1)

\* content_digest raises for a file of the directory: the scan ends without a report
ScanRaises(prog, d) ==
    \E e \in Epochs : /\ d[ArtifactPath(e)] # NoFile
                      /\ "raised" \in DOMAIN scan_ckpt(prog, FileView(prog, d, e))

\* the scanner of the writer's format runs over the directory after the writer
RunScan ==
    /\ cfg.prog \in {"npz", "torch"} /\ w.pc \in {"done", "exited"}
    /\ ~ScanRaises(cfg.prog, fs)
    /\ row' = RunRows(cfg.prog, fs, 1)
    /\ UNCHANGED <<fs, cfg, w, io>>

\* rollback.py is started on the report
RunRollback ==
    /\ cfg.prog \in {"npz", "torch"} /\ w.pc \in {"done", "exited"}
    /\ cfg' = [cfg EXCEPT !.prog = "rollback"]
    /\ w' = [RbIdle EXCEPT !.pc = "read_csv", !.link0 = fs[LinkPath]]
    /\ UNCHANGED <<fs, io, row>>

\* the runs: run_many.py passes the format, the write mode, the fault and the
\* crash epoch; epochs and checkpoint-every are small
RunConfigs ==
    [prog : {"npz", "torch"}, writer : {"npz", "torch"}, write_mode : WriteModes,
     fault : {"none", "truncate"}, crash_epoch : {-1} \cup Epochs,
     epochs : {MaxEpoch}, every : {1, 2}, seed : {0}]

InitRun ==
    /\ cfg \in { c \in RunConfigs : c.writer = c.prog }
    /\ fs = [p \in RunPaths |-> NoFile]
    /\ w = [RunIdle EXCEPT !.pc = "loop"]
    /\ io = IoIdle
    /\ row = NoRow

NextRun ==
    \/ RunLoop \/ RunMeta \/ RunCkpt \/ RunSaved
    \/ RunScan \/ RunRollback
    \/ RbPick \/ RbUnlink \/ RbSymlink

SpecRun == InitRun /\ [][NextRun]_vars

----------------------------------------------------------------------------
\* the run of the claim: unsafe mode, no fault, the crash epoch a checkpoint
\* epoch other than the first
CrashRun ==
    /\ cfg.writer \in {"npz", "torch"}
    /\ cfg.write_mode = "unsafe" /\ cfg.fault = "none"
    /\ cfg.crash_epoch \in ckpt_epochs(cfg.epochs, cfg.every)
    /\ cfg.crash_epoch > cfg.every

RowOf(e) == { k \in 1..Len(row) : row[k].epoch = e }

\* C35: for an unsafe run with fault=none and crash_epoch=c, c a checkpoint
\* epoch other than the first: no checkpoint of an epoch after c is ever
\* written; the scan reports the checkpoint of c corrupted and every earlier
\* checkpoint not corrupted; the rollback that follows ends with the alias on
\* the checkpoint of the largest checkpoint epoch before c.
C35_CrashEpochEndToEnd ==
    CrashRun =>
        LET c == cfg.crash_epoch IN
        /\ \A e \in Epochs : e > c => fs[ArtifactPath(e)] = NoFile
        /\ row # NoRow =>
               /\ \A k \in 1..Len(row) : row[k].epoch \in ckpt_epochs(c, cfg.every)
               /\ \A e \in ckpt_epochs(c, cfg.every) :
                      /\ RowOf(e) # {}
                      /\ \A k \in RowOf(e) : row[k].corrupted = (IF e = c THEN 1 ELSE 0)
        /\ (row # NoRow /\ cfg.prog = "rollback" /\ w.pc \in {"done", "exited"}) =>
               /\ w.pc = "done"
               /\ fs[LinkPath] = LinkTo(c - cfg.every)

\* the writer crashed at its last epoch, the scan reported that checkpoint
\* corrupted, and the rollback has linked the alias to the one before it
C35_Witness ==
    /\ CrashRun /\ cfg.crash_epoch = MaxEpoch /\ cfg.every = 1
    /\ cfg.prog = "rollback" /\ w.pc = "done"
    /\ Len(row) = MaxEpoch /\ row[MaxEpoch].corrupted = 1
    /\ fs[ArtifactPath(MaxEpoch)] # NoFile
    /\ fs[LinkPath] = LinkTo(MaxEpoch - 1)

----------------------------------------------------------------------------
\* C36: in both single-checkpoint writers, in atomic and in unsafe mode, the
\* sidecar of the epoch is in place, whole, before the first byte of the
\* checkpoint file is visible: in every state, also after a stop at any step,
\* a checkpoint file on disk has a complete, parseable sidecar, and the
\* expected digest (and the Torch file hash) in it is the one of the content
\* before fault injection.
C36_SidecarBeforeCheckpoint ==
    (IsSingle /\ fs[CkptPath(cfg.prog)] # NoFile) =>
        /\ fs[MetaPath(cfg.prog)] # NoFile
        /\ LET m == ParseMeta(fs[MetaPath(cfg.prog)]) IN
           /\ m.kind = "object"
           /\ m.expected_digest =
                  content_digest(cfg.prog, Payload(cfg.prog), KEY_ORDER(cfg.prog))
           /\ cfg.prog = "torch" =>
                  m.expected_file_sha256 = sha256_bytes(CleanRaw(cfg.prog))

\* a writer with a fault to inject, stopped in unsafe mode after the open of
\* the checkpoint file: the file is empty and its sidecar is whole
C36_Witness ==
    /\ IsSingle /\ cfg.write_mode = "unsafe" /\ cfg.fault # "none"
    /\ w.halt /\ w.pc = "ckpt_io" /\ io.pc = "write"
    /\ w.raw # CleanRaw(cfg.prog)
    /\ fs[CkptPath(cfg.prog)] = << >>
    /\ ParseMeta(fs[MetaPath(cfg.prog)]).kind = "object"

----------------------------------------------------------------------------
(* write_group over an epoch directory that holds the committed group of an
   earlier run, stopped at any step, then scanned *)

\* the earlier runs: their seed and sizes (fault none, the run completed)
OldRuns == [seed : {0, 1}, kb_model : 0..MaxKb, kb_optim : 0..MaxKb]

\* the manifest entries write_group records for the parts it wrote
ManifestOf(parts) ==
    [k \in 1..Len(PartNames) |->
        [path |-> PartNames[k], bytes |-> Len(parts[k]), sha256 |-> sha256_bytes(parts[k])]]

\* the epoch directory after a complete run of write_group without fault
GroupDir(epoch, seed, kb_model, kb_optim, ts) ==
    LET parts == gen_parts(seed, epoch, kb_model, kb_optim)
        man   == ManifestText(epoch, seed, ManifestOf(parts))
    IN  [p \in Paths |->
            IF p = ManPath THEN man
            ELSE IF p = ComPath THEN CommitText(epoch, seed, sha256_bytes(man), ts)
            ELSE IF \E k \in 1..Len(PartNames) : PartNames[k] = p THEN parts[PartId(p)]
            ELSE NoFile]

OverConfigs ==
    [prog : {"group"}, write_mode : WriteModes, fault : {"none"}, crash_at : CrashPoints,
     dir_fsync : {FALSE}, epoch : {3}, seed : {0},
     kb_model : 0..MaxKb, kb_optim : 0..MaxKb, old : OldRuns]

InitOver ==
    /\ cfg \in OverConfigs
    /\ fs = GroupDir(cfg.epoch, cfg.old.seed, cfg.old.kb_model, cfg.old.kb_optim, 0)
    /\ w = [WIdle EXCEPT !.pc = "parts"]
    /\ io = IoIdle
    /\ row = NoRow

NextOver ==
    \/ GPart \/ GPartDone \/ GManifest \/ GCommit \/ GReturn
    \/ AwMkstemp \/ AwWrite \/ AwFlushFsync \/ AwReplace \/ AwFinally
    \/ UwOpen \/ UwWriteClose
    \/ Kill \/ Scan

SpecOver == InitOver /\ [][NextOver]_vars

\* the generation left by the earlier run, and the one this run writes
OldGen == GroupDir(cfg.epoch, cfg.old.seed, cfg.old.kb_model, cfg.old.kb_optim, 0)
NewGen == GroupDir(cfg.epoch, cfg.seed, cfg.kb_model, cfg.kb_optim, 1)

GroupFiles == { PartNames[k] : k \in 1..Len(PartNames) } \cup { ManPath, ComPath }
PartsDiffer == \E k \in 1..Len(PartNames) : OldGen[PartNames[k]] # NewGen[PartNames[k]]
AllOf(gen) == \A p \in GroupFiles : fs[p] = gen[p]

\* C37: write_group in atomic mode over a directory that holds a valid
\* committed group with other part contents: at a stop between any two
\* file-system steps the scanner reports group_ok = 1 only when parts,
\* manifest and commit are all of the old generation or all of the new one.
C37_NoMixedGeneration ==
    (cfg.write_mode = "atomic" /\ PartsDiffer /\ Scanned /\ row.group_ok = 1) =>
        (AllOf(OldGen) \/ AllOf(NewGen))

\* a stop after the first new part is in place, the old manifest and commit
\* still there: the scan reports the group not ok
C37_Witness ==
    /\ cfg.write_mode = "atomic" /\ PartsDiffer /\ w.halt
    /\ fs["model.bin"] = NewGen["model.bin"] /\ fs["model.bin"] # OldGen["model.bin"]
    /\ fs[ManPath] = OldGen[ManPath] /\ fs[ComPath] = OldGen[ComPath]
    /\ Scanned /\ row.group_ok = 0 /\ row.has_commit = 1 /\ row.note # << >>

----------------------------------------------------------------------------
\* C38: after the watch or verify mode has rolled a failing checkpoint back
\* (rollback(dst, last_good) returned true), the restored file passes
\* verification: verify_once(dst) returns ok.
C38_RestoredFileVerifies ==
    (cfg.prog \in {"verify", "watch"} /\ w.rolled) =>
        verify_once(fs) = [raised |-> FALSE, ok |-> TRUE]

\* the watch loop at rest on an unchanged directory after a rollback: the file
\* is the last-good copy, its metadata is whole, and it does not verify
C38_Witness ==
    /\ cfg.prog = "watch" /\ w.rolled /\ w.pc = "sleep"
    /\ w.seen = fs[MtimePath(WatchedPath)][1]
    /\ fs[WatchedPath] = fs[LastGoodPath]
    /\ read_meta(fs).kind = "object"
    /\ ~verify_once(fs).ok
    /\ Len(row) >= 2 /\ row[Len(row)].rolled

====
